---- MODULE Spec2Model ----
(***************************************************************************)
(* A model of the online bookstore: the JSON file store with its atomic    *)
(* write, the book repository built on it, and the inventory and sales     *)
(* services.  Strings are sequences of one-character strings, so that      *)
(* stripping, upper-casing and the ISBN pattern are computed.  Prices      *)
(* handed to the services are decimal amounts counted in thousandths of    *)
(* the major unit (mils); persisted prices are integer cents.              *)
(***************************************************************************)
EXTENDS Integers, Sequences, FiniteSets, TLC

VARIABLES
  file,     \* content of the backing file (self._path)
  tmp,      \* the temporary file of the write in progress
  tmpName,  \* _atomic_write's local tmp_name: TRUE once it is assigned
  pc,       \* position of the writer process
  call,     \* the operation in progress or just completed, with its outcome
  pre,      \* content of the backing file when the operation was called
  nextId,   \* number of uuid4() values drawn so far, plus one
  robs      \* what the last load() of the reader process returned

vars == <<file, tmp, tmpName, pc, call, pre, nextId, robs>>

\* ---------------------------------------------------------------- bounds
MaxQty == 2      \* stock is kept at or below this by the guards
MaxIds == 3      \* number of uuid4() values the run may draw
MaxClock == 1    \* datetime.now() returns a value in 1..MaxClock
MaxLen == 3      \* length of the collections the queries are run on
MaxStamp == 2    \* timestamps of the sales the queries are run on
MaxOps == 2      \* operations the interleaved writers run, all together
MaxCalls == 3    \* operations the writers of the empty store run, all together

Times == 1..MaxClock

\* ---------------------------------------------------------------- strings
WhiteSpace == {" ", "\n"}

Digits == {"0", "1", "2", "3", "4", "5", "6", "7", "8", "9"}

UpperMap == [a |-> "A", b |-> "B", c |-> "C", d |-> "D", e |-> "E", s |-> "S", u |-> "U", v |-> "V", x |-> "X"]

upperChar(ch) == IF ch \in DOMAIN UpperMap THEN UpperMap[ch] ELSE ch

\* str.upper()
upper(s) == [i \in 1..Len(s) |-> upperChar(s[i])]

lowerChar(ch) ==
  IF \E k \in DOMAIN UpperMap : UpperMap[k] = ch
  THEN CHOOSE k \in DOMAIN UpperMap : UpperMap[k] = ch
  ELSE ch

\* str.lower()
lower(s) == [i \in 1..Len(s) |-> lowerChar(s[i])]

\* sub in s: sub occurs in s as a contiguous run of characters
contains(sub, s) ==
  \E i \in 0..(Len(s) - Len(sub)) : SubSeq(s, i + 1, i + Len(sub)) = sub

\* the code points of the characters, which order the strings
ord ==
  (" " :> 32) @@ ("-" :> 45) @@ ("0" :> 48) @@ ("1" :> 49) @@ ("2" :> 50)
  @@ ("3" :> 51) @@ ("4" :> 52) @@ ("5" :> 53) @@ ("6" :> 54) @@ ("7" :> 55)
  @@ ("8" :> 56) @@ ("9" :> 57) @@ ("A" :> 65) @@ ("B" :> 66) @@ ("C" :> 67)
  @@ ("D" :> 68) @@ ("E" :> 69) @@ ("S" :> 83) @@ ("U" :> 85) @@ ("V" :> 86)
  @@ ("X" :> 88) @@ ("a" :> 97) @@ ("b" :> 98) @@ ("c" :> 99) @@ ("d" :> 100)
  @@ ("e" :> 101) @@ ("s" :> 115) @@ ("u" :> 117) @@ ("v" :> 118)
  @@ ("x" :> 120)

RECURSIVE str_lt(_, _)
\* a < b of two str values
str_lt(a, b) ==
  IF b = <<>> THEN FALSE
  ELSE IF a = <<>> THEN TRUE
  ELSE IF Head(a) = Head(b) THEN str_lt(Tail(a), Tail(b))
  ELSE ord[Head(a)] < ord[Head(b)]

\* the text between the first and the last of the kept positions
strip_kept(s, keep) ==
  IF keep = {} THEN <<>>
  ELSE SubSeq(s, CHOOSE i \in keep : \A j \in keep : i <= j,
                 CHOOSE i \in keep : \A j \in keep : j <= i)

\* str.strip()
strip(s) == strip_kept(s, {i \in 1..Len(s) : s[i] \notin WhiteSpace})

\* re.sub(<class of characters>, "", s)
re_sub(removed, s) == SelectSeq(s, LAMBDA ch : ch \notin removed)

\* ---------------------------------------------------------------- Book
\* _ISBN_RE: ^[0-9]{9}[0-9X]$|^[0-9]{13}$
ISBN_RE_core(s) ==
  \/ /\ Len(s) = 10
     /\ \A i \in 1..9 : s[i] \in Digits
     /\ s[10] \in Digits \cup {"X"}
  \/ /\ Len(s) = 13
     /\ \A i \in 1..13 : s[i] \in Digits

\* _ISBN_RE.match(s): "$" also matches before one trailing newline
ISBN_RE_match(s) ==
  \/ ISBN_RE_core(s)
  \/ /\ Len(s) > 0
     /\ s[Len(s)] = "\n"
     /\ ISBN_RE_core(SubSeq(s, 1, Len(s) - 1))

\* Book._normalize_isbn and BookRepository._normalize_isbn (the same code)
normalize_isbn(raw) == upper(re_sub({"-", " "}, raw))

\* Decimal.quantize(Decimal("1")) under ROUND_HALF_EVEN of q + r/10
round_half_even(q, r) ==
  IF r > 5 THEN q + 1
  ELSE IF r < 5 THEN q
  ELSE IF q % 2 = 0 THEN q ELSE q + 1

\* int((dec * 100).quantize(Decimal("1"))), the amount given in mils
quantize_cents(mils) == round_half_even(mils \div 10, mils % 10)

\* Book._to_cents
to_cents(mils) ==
  IF mils < 0 THEN [err |-> "ValidationError"]
  ELSE [err |-> "none", v |-> quantize_cents(mils)]

non_empty(stripped) ==
  IF stripped = <<>> THEN [err |-> "ValidationError"]
  ELSE [err |-> "none", v |-> stripped]

\* Book._validate_non_empty
validate_non_empty(s) == non_empty(strip(s))

\* Book._validate_currency
validate_currency(s) == non_empty(upper(strip(s)))

NoneId == 0     \* book_id=None
NoneTime == 0   \* created_at=None

\* the assignments of Book.__init__, each field already validated
Book_fields(t, a, n, c, p, quantity, id, archived, created_at) ==
  IF \/ t.err # "none"
     \/ a.err # "none"
     \/ ~ISBN_RE_match(n)
     \/ c.err # "none"
     \/ p.err # "none"
     \/ quantity < 0
  THEN [err |-> "ValidationError"]
  ELSE [err |-> "none",
        book |-> [id |-> id, created_at |-> created_at, title |-> t.v,
                  author |-> a.v, isbn |-> n, currency |-> c.v,
                  price_cents |-> p.v, quantity |-> quantity,
                  archived |-> archived]]

\* Book.__init__ ; fresh and now stand for uuid4() and datetime.now()
Book_init(title, author, isbn, price, currency, quantity, book_id, archived, created_at, fresh, now) ==
  Book_fields(validate_non_empty(title), validate_non_empty(author),
              normalize_isbn(isbn), validate_currency(currency),
              to_cents(price), quantity,
              IF book_id = NoneId THEN fresh ELSE book_id, archived,
              IF created_at = NoneTime THEN now ELSE created_at)

\* Book.to_dict ; absent is the set of keys the dict does not hold
Book_to_dict(b) ==
  [id |-> b.id, title |-> b.title, author |-> b.author, isbn |-> b.isbn,
   price_cents |-> b.price_cents, currency |-> b.currency,
   quantity |-> b.quantity, archived |-> b.archived,
   created_at |-> b.created_at, absent |-> {}]

USD == <<"U", "S", "D">>

\* Book.from_dict ; Decimal(int(price_cents)) / Decimal(100) is
\* price_cents * 10 mils
Book_from_dict(d, fresh, now) ==
  IF {"price_cents", "title", "author", "isbn"} \cap d.absent # {}
  THEN [err |-> "KeyError"]
  ELSE Book_init(d.title, d.author, d.isbn, d.price_cents * 10,
                 IF "currency" \in d.absent THEN USD ELSE d.currency,
                 IF "quantity" \in d.absent THEN 0 ELSE d.quantity,
                 IF "id" \in d.absent THEN NoneId ELSE d.id,
                 IF "archived" \in d.absent THEN FALSE ELSE d.archived,
                 IF "created_at" \in d.absent THEN NoneTime ELSE d.created_at,
                 fresh, now)

\* Book._validate_positive_int
validate_positive_int(n) == n > 0

\* a faulty Book.increase_stock: one copy is added whatever n is
increase_by_one(b, n) ==
  IF n <= 0 THEN [err |-> "ValidationError"]
  ELSE [err |-> "none", book |-> [b EXCEPT !.quantity = @ + 1]]

\* Book.increase_stock
Book_increase_stock(b, n) ==
  IF ~validate_positive_int(n) THEN [err |-> "ValidationError"]
  ELSE [err |-> "none", book |-> [b EXCEPT !.quantity = @ + n]]

\* a faulty Book.decrease_stock: the quantity is clamped to zero
decrease_clamped(b, n) ==
  [err |-> "none",
   book |-> [b EXCEPT !.quantity = IF n > @ THEN 0 ELSE @ - n]]

\* Book.decrease_stock
Book_decrease_stock(b, n) ==
  IF ~validate_positive_int(n) \/ n > b.quantity
  THEN [err |-> "ValidationError"]
  ELSE [err |-> "none", book |-> [b EXCEPT !.quantity = @ - n]]

\* Book.mark_archived
Book_mark_archived(b) == [b EXCEPT !.archived = TRUE]

\* the assignment of the price setter, the amount already converted
with_price(b, p) ==
  IF p.err # "none" THEN [err |-> "ValidationError"]
  ELSE [err |-> "none", book |-> [b EXCEPT !.price_cents = p.v]]

\* Book.price setter
Book_set_price(b, price) == with_price(b, to_cents(price))

\* ---------------------------------------------------------------- JSONStore
\* A field of the root object: absent as a key, null, a scalar, or a list.
AbsentF == [st |-> "absent", items |-> <<>>]
NullF == [st |-> "null", items |-> <<>>]
ScalarF == [st |-> "scalar", items |-> <<>>]
ListF(items) == [st |-> "list", items |-> items]

\* A Python value handed to save() or returned by load(): a dict with the
\* two fields, or something that is no dict.
Obj(books, sales) == [kind |-> "object", books |-> books, sales |-> sales]
NonObject == [kind |-> "nonobject", books |-> AbsentF, sales |-> AbsentF]

\* Content of a file: "missing" (no file), "empty" and "truncated" (a proper
\* prefix of a serialisation), "garbage" (text that is no JSON), "badutf8"
\* (bytes that are no UTF-8 text), or the serialisation of a value.
Content(kind) == [kind |-> kind, books |-> AbsentF, sales |-> AbsentF]
Missing == Content("missing")
NoTmp == Content("missing")

\* Elements of a list that are no dicts of strings, integers and booleans:
\* a tuple, the JSON array a tuple is written as, and an object json cannot
\* write (a Book, a datetime)
TupleItem == [py |-> "tuple"]
ArrayItem == [py |-> "list"]
ObjectItem == [py |-> "object"]

\* how json.dump writes one element: a tuple becomes an array, a dict is
\* written key by key
json_encode(item) ==
  IF "py" \in DOMAIN item /\ item.py = "tuple" THEN ArrayItem ELSE item

encode_field(fld) ==
  [st |-> fld.st,
   items |-> [i \in 1..Len(fld.items) |-> json_encode(fld.items[i])]]

\* json.dump raises TypeError for an element it cannot write
unwritable(fld) ==
  \E i \in 1..Len(fld.items) :
    "py" \in DOMAIN fld.items[i] /\ fld.items[i].py = "object"

serializable(data) == ~unwritable(data.books) /\ ~unwritable(data.sales)

\* json.dump(data, tf, ...) followed by the newline: the text of the value
json_dump(data) ==
  [kind |-> data.kind, books |-> encode_field(data.books),
   sales |-> encode_field(data.sales)]

\* a faulty json_load: the two arrays change places
json_load_swapped(content) ==
  CASE content.kind \in {"empty", "truncated", "garbage"} ->
         [err |-> "JSONDecodeError"]
    [] content.kind = "badutf8" -> [err |-> "UnicodeDecodeError"]
    [] OTHER -> [err |-> "none",
                 data |-> [kind |-> content.kind, books |-> content.sales,
                           sales |-> content.books]]

\* json.load(f) on an existing file
json_load(content) ==
  CASE content.kind \in {"empty", "truncated", "garbage"} ->
         [err |-> "JSONDecodeError"]
    [] content.kind = "badutf8" -> [err |-> "UnicodeDecodeError"]
    [] OTHER -> [err |-> "none",
                 data |-> [kind |-> content.kind, books |-> content.books,
                           sales |-> content.sales]]

\* a faulty default_data: the document lacks the sales field
default_books_only == Obj(ListF(<<>>), AbsentF)

\* JSONStore._default_data
default_data == Obj(ListF(<<>>), ListF(<<>>))

\* dict.get(key): None for an absent key and for a key holding null
IsNone(fld) == fld.st \in {"absent", "null"}

\* lines 53-58 of _validate_and_normalize: the empty list for a None field
or_empty(fld, allow_missing) ==
  IF IsNone(fld) /\ allow_missing THEN ListF(<<>>) ELSE fld

\* a faulty validate_and_normalize: the empty list stands in for a None
\* field whatever allow_missing says
validate_lenient(data, allow_missing) ==
  IF data.kind # "object" THEN [err |-> "StorageError"]
  ELSE IF \/ or_empty(data.books, TRUE).st # "list"
          \/ or_empty(data.sales, TRUE).st # "list"
  THEN [err |-> "StorageError"]
  ELSE [err |-> "none",
        data |-> Obj(or_empty(data.books, TRUE), or_empty(data.sales, TRUE))]

\* JSONStore._validate_and_normalize
validate_and_normalize(data, allow_missing) ==
  IF data.kind # "object" THEN [err |-> "StorageError"]
  ELSE IF (IsNone(data.books) \/ IsNone(data.sales)) /\ ~allow_missing
  THEN [err |-> "StorageError"]
  ELSE IF \/ or_empty(data.books, allow_missing).st # "list"
          \/ or_empty(data.sales, allow_missing).st # "list"
  THEN [err |-> "StorageError"]
  ELSE [err |-> "none",
        data |-> Obj(or_empty(data.books, allow_missing),
                     or_empty(data.sales, allow_missing))]

\* The steps of JSONStore._atomic_write.  Each gives the target file and the
\* temporary file it leaves.
\* NamedTemporaryFile(..., delete=False): a new, empty file beside the target
create_temp(f, t) == [file |-> f, tmp |-> Content("empty")]

\* a faulty dump_temp: the text is written into the target itself
dump_target(f, t, data) == [file |-> Content("truncated"), tmp |-> t]

\* json.dump(data, tf, ...): the text reaches the temporary file in pieces
dump_temp(f, t, data) == [file |-> f, tmp |-> Content("truncated")]

\* tf.write("\n") and the end of the with block: the whole text is in the
\* temporary file
close_temp(f, t, data) == [file |-> f, tmp |-> json_dump(data)]

\* os.replace(tmp_name, self._path)
os_replace(f, t) == [file |-> t, tmp |-> NoTmp]

\* the except clause: the temporary file is removed if tmp_name was assigned
remove_temp(f, t, tmp_name) ==
  IF tmp_name /\ t.kind # "missing" THEN [file |-> f, tmp |-> NoTmp]
  ELSE [file |-> f, tmp |-> t]

\* the target after the steps have run one after the other
replaced(d, data) ==
  os_replace(close_temp(d.file, d.tmp, data).file,
             close_temp(d.file, d.tmp, data).tmp).file

\* JSONStore._atomic_write run to completion with no I/O failure
atomic_write(f, data) ==
  replaced(dump_temp(f, create_temp(f, NoTmp).tmp, data), data)

\* the return statement of load: v is what _validate_and_normalize gave
load_return(v, f) ==
  IF v.err # "none" THEN [err |-> v.err, file |-> f]
  ELSE [err |-> "none", data |-> v.data, file |-> f]

\* the except clauses of load: j is what json.load gave
load_parsed(j, f) ==
  IF j.err = "JSONDecodeError" THEN [err |-> "StorageError", file |-> f]
  ELSE IF j.err # "none" THEN [err |-> j.err, file |-> f]
  ELSE load_return(validate_and_normalize(j.data, TRUE), f)

\* JSONStore.load run to completion with no I/O failure: the outcome and the
\* file it leaves.
JSONStore_load(f) ==
  IF f.kind = "missing"
  THEN load_return(validate_and_normalize(default_data, TRUE),
                   atomic_write(f, default_data))
  ELSE load_parsed(json_load(f), f)

\* the write of save: v is what _validate_and_normalize gave
save_validated(v, f) ==
  IF v.err # "none" THEN [err |-> v.err, file |-> f]
  ELSE IF ~serializable(v.data) THEN [err |-> "StorageError", file |-> f]
  ELSE [err |-> "none", file |-> atomic_write(f, v.data)]

\* JSONStore.save run to completion with no I/O failure
JSONStore_save(f, data) ==
  save_validated(validate_and_normalize(data, FALSE), f)

\* ---------------------------------------------------------------- Sale
\* the pattern test of Sale._normalize_isbn
isbn_checked(cleaned) ==
  IF ISBN_RE_match(cleaned) THEN [err |-> "none", v |-> cleaned]
  ELSE [err |-> "ValidationError"]

\* Sale._normalize_isbn
Sale_normalize_isbn(raw) ==
  isbn_checked(upper(re_sub({"-"} \cup WhiteSpace, raw)))

\* the constructor call of Sale.create, the fields already validated
Sale_fields(book_id, n, qty, unit_price_cents, c, fresh, now) ==
  IF \/ book_id = NoneId
     \/ qty <= 0
     \/ unit_price_cents < 0
     \/ n.err # "none"
     \/ c.err # "none"
  THEN [err |-> "ValidationError"]
  ELSE [err |-> "none",
        sale |-> [sale_id |-> fresh, book_id |-> book_id, isbn |-> n.v,
                  qty |-> qty, unit_price_cents |-> unit_price_cents,
                  currency |-> c.v, timestamp |-> now]]

\* Sale.create ; fresh and now stand for uuid4() and datetime.now()
Sale_create(book_id, isbn, qty, unit_price_cents, currency, fresh, now) ==
  Sale_fields(book_id, Sale_normalize_isbn(isbn), qty, unit_price_cents,
              validate_currency(currency), fresh, now)

\* Sale.to_dict
Sale_to_dict(s) ==
  [sale_id |-> s.sale_id, book_id |-> s.book_id, isbn |-> s.isbn,
   qty |-> s.qty, unit_price_cents |-> s.unit_price_cents,
   currency |-> s.currency, timestamp |-> s.timestamp]

\* Sale.from_dict
Sale_from_dict(d) ==
  [sale_id |-> d.sale_id, book_id |-> d.book_id, isbn |-> d.isbn,
   qty |-> d.qty, unit_price_cents |-> d.unit_price_cents,
   currency |-> d.currency, timestamp |-> d.timestamp]

\* Sale.total_cents
total_cents(s) == s.unit_price_cents * s.qty

\* ---------------------------------------------------------------- BookRepository
\* Every operation gives its outcome err and the file it leaves.
Raise(err, f) == [err |-> err, file |-> f]

\* one turn of the loop of _load_books: a record that raises ValidationError
\* is skipped, any other exception ends the loop
decode_step(b, rest) ==
  IF b.err = "ValidationError" THEN rest
  ELSE IF b.err # "none" THEN [err |-> b.err]
  ELSE IF rest.err # "none" THEN rest
  ELSE [err |-> "none", books |-> <<b.book>> \o rest.books]

RECURSIVE decode_books(_, _, _)
\* the loop of _load_books
decode_books(raw, fresh, now) ==
  IF raw = <<>> THEN [err |-> "none", books |-> <<>>]
  ELSE decode_step(Book_from_dict(Head(raw), fresh, now),
                   decode_books(Tail(raw), fresh, now))

loaded_books(d, f) ==
  IF d.err # "none" THEN Raise(d.err, f)
  ELSE [err |-> "none", books |-> d.books, file |-> f]

decode_loaded(l, fresh, now) ==
  IF l.err # "none" THEN Raise(l.err, l.file)
  ELSE loaded_books(decode_books(l.data.books.items, fresh, now), l.file)

\* BookRepository._load_books
load_books(f, fresh, now) == decode_loaded(JSONStore_load(f), fresh, now)

\* [b.to_dict() for b in books]
to_dicts(books) == [i \in 1..Len(books) |-> Book_to_dict(books[i])]

\* a faulty save_into: the books are saved into a fresh document
save_into_fresh(l, books) ==
  IF l.err # "none" THEN Raise(l.err, l.file)
  ELSE JSONStore_save(l.file, Obj(ListF(to_dicts(books)), ListF(<<>>)))

save_into(l, books) ==
  IF l.err # "none" THEN Raise(l.err, l.file)
  ELSE JSONStore_save(l.file, [l.data EXCEPT !.books = ListF(to_dicts(books))])

\* BookRepository._save_books
save_books(f, books) == save_into(JSONStore_load(f), books)

\* the first element of a set of indexes ; 0 stands for None
first_index(hits) ==
  IF hits = {} THEN 0 ELSE CHOOSE i \in hits : \A j \in hits : i <= j

\* BookRepository._find_index_by_id
find_index_by_id(books, book_id) ==
  first_index({i \in 1..Len(books) : books[i].id = book_id})

\* BookRepository._find_index_by_isbn
find_index_by_isbn(books, isbn) ==
  first_index({i \in 1..Len(books) : books[i].isbn = isbn})

without_archived(l) ==
  IF l.err # "none" THEN l
  ELSE [l EXCEPT !.books = SelectSeq(@, LAMBDA b : ~b.archived)]

\* BookRepository.list_all
list_all(f, include_archived, fresh, now) ==
  IF include_archived THEN load_books(f, fresh, now)
  ELSE without_archived(load_books(f, fresh, now))

\* the condition of the loop of search
matches(q, b) ==
  \/ contains(q, lower(b.title))
  \/ contains(q, lower(b.author))
  \/ contains(q, lower(b.isbn))

RECURSIVE collect(_, _, _, _)
\* the loop of search: append a matching book, then leave the loop if
\* len(results) >= limit
collect(books, q, limit, results) ==
  IF books = <<>> THEN results
  ELSE IF ~matches(q, Head(books)) THEN collect(Tail(books), q, limit, results)
  ELSE IF Len(results) + 1 >= limit THEN Append(results, Head(books))
  ELSE collect(Tail(books), q, limit, Append(results, Head(books)))

\* key(a) < key(b) for key = lambda x: (x.title.lower(), x.author.lower())
key_lt(a, b) ==
  \/ str_lt(lower(a.title), lower(b.title))
  \/ /\ lower(a.title) = lower(b.title)
     /\ str_lt(lower(a.author), lower(b.author))

RECURSIVE insert_by_key(_, _)
\* place b after every element whose key is not greater (a stable sort)
insert_by_key(sorted, b) ==
  IF sorted = <<>> THEN <<b>>
  ELSE IF key_lt(b, Head(sorted)) THEN <<b>> \o sorted
  ELSE <<Head(sorted)>> \o insert_by_key(Tail(sorted), b)

RECURSIVE sort_by_key(_)
\* results.sort(key=...)
sort_by_key(results) ==
  IF results = <<>> THEN <<>>
  ELSE insert_by_key(sort_by_key(SubSeq(results, 1, Len(results) - 1)),
                     results[Len(results)])

search_in(l, q, limit) ==
  IF l.err # "none" THEN l
  ELSE [err |-> "none", file |-> l.file,
        ret |-> sort_by_key(collect(l.books, q, limit, <<>>))]

search_for(f, q, include_archived, limit, fresh, now) ==
  IF q = <<>> THEN [err |-> "none", file |-> f, ret |-> <<>>]
  ELSE search_in(list_all(f, include_archived, fresh, now), q, limit)

\* BookRepository.search
search(f, query, include_archived, limit, fresh, now) ==
  search_for(f, lower(strip(query)), include_archived, limit, fresh, now)

\* the book at idx of the loaded list, or BookNotFoundError for no index
found_at(l, idx) ==
  IF idx = 0 THEN Raise("BookNotFoundError", l.file)
  ELSE [err |-> "none", book |-> l.books[idx], file |-> l.file]

find_by_id(l, book_id) ==
  IF l.err # "none" THEN l ELSE found_at(l, find_index_by_id(l.books, book_id))

\* BookRepository.get_by_id
get_by_id(f, book_id, fresh, now) ==
  find_by_id(load_books(f, fresh, now), book_id)

find_by_isbn(l, norm) ==
  IF l.err # "none" THEN l ELSE found_at(l, find_index_by_isbn(l.books, norm))

\* BookRepository.get_by_isbn
get_by_isbn(f, isbn, fresh, now) ==
  find_by_isbn(load_books(f, fresh, now), normalize_isbn(isbn))

\* a faulty add_collides: add does not look for the ISBN
collides_never(books, book) == FALSE

\* the test of BookRepository.add: some loaded book has the record's ISBN
add_collides(books, book) ==
  \E i \in 1..Len(books) : books[i].isbn = book.isbn

add_to(l, book) ==
  IF l.err # "none" THEN l
  ELSE IF add_collides(l.books, book)
  THEN Raise("DuplicateISBNError", l.file)
  ELSE save_books(l.file, Append(l.books, book))

\* BookRepository.add
add(f, book, fresh, now) == add_to(load_books(f, fresh, now), book)

\* a faulty update_collides: update does not look for another record
collides_nowhere(books, idx, book) == FALSE

\* the loop of BookRepository.update: another loaded book has the record's ISBN
update_collides(books, idx, book) ==
  \E i \in 1..Len(books) : i # idx /\ books[i].isbn = book.isbn

\* the name the loop raises, DuplicateISBNErrror, is not defined in the
\* module, so the raise statement raises NameError
\* a faulty update_at: the record is taken out and put back at the end
update_moves_last(l, idx, book) ==
  IF idx = 0 THEN Raise("BookNotFoundError", l.file)
  ELSE IF update_collides(l.books, idx, book) THEN Raise("NameError", l.file)
  ELSE save_books(l.file,
         Append(SubSeq(l.books, 1, idx - 1)
                \o SubSeq(l.books, idx + 1, Len(l.books)), book))

update_at(l, idx, book) ==
  IF idx = 0 THEN Raise("BookNotFoundError", l.file)
  ELSE IF update_collides(l.books, idx, book) THEN Raise("NameError", l.file)
  ELSE save_books(l.file, [l.books EXCEPT ![idx] = book])

update_in(l, book) ==
  IF l.err # "none" THEN l
  ELSE update_at(l, find_index_by_id(l.books, book.id), book)

\* BookRepository.update
update(f, book, fresh, now) == update_in(load_books(f, fresh, now), book)

\* a faulty del_at: del books[0]
del_first(books, idx) == Tail(books)

\* del books[idx]
del_at(books, idx) ==
  SubSeq(books, 1, idx - 1) \o SubSeq(books, idx + 1, Len(books))

remove_at(l, idx) ==
  IF idx = 0 THEN Raise("BookNotFoundError", l.file)
  ELSE save_books(l.file, del_at(l.books, idx))

remove_in(l, book_id) ==
  IF l.err # "none" THEN l
  ELSE remove_at(l, find_index_by_id(l.books, book_id))

\* BookRepository.remove
remove(f, book_id, fresh, now) ==
  remove_in(load_books(f, fresh, now), book_id)

archive_at(l, idx) ==
  IF idx = 0 THEN Raise("BookNotFoundError", l.file)
  ELSE save_books(l.file,
         [l.books EXCEPT ![idx] = Book_mark_archived(l.books[idx])])

archive_in(l, norm) ==
  IF l.err # "none" THEN l
  ELSE archive_at(l, find_index_by_isbn(l.books, norm))

\* BookRepository.archive_by_isbn
archive_by_isbn(f, isbn, fresh, now) ==
  archive_in(load_books(f, fresh, now), normalize_isbn(isbn))

\* ---------------------------------------------------------------- InventoryService
\* A service operation also gives, on success, the record it returns (ret).
Result(r, ret) ==
  IF r.err # "none" THEN Raise(r.err, r.file)
  ELSE [err |-> "none", file |-> r.file, ret |-> ret]

\* persist via update and return the record: b is the outcome of the
\* mutation of the record in memory
update_and_return(b, f, fresh, now) ==
  IF b.err # "none" THEN Raise(b.err, f)
  ELSE Result(update(f, b.book, fresh, now), b.book)

\* lines 49-58 of add_book: new is the outcome of Book(...)
add_new(new, f, fresh, now) ==
  IF new.err # "none" THEN Raise(new.err, f)
  ELSE Result(add(f, new.book, fresh, now), new.book)

\* a faulty restock_price: a restock never touches the price
restock_keeps_price(inc, price, update_price_if_changed) == inc

\* lines 62-63 of add_book: inc is the outcome of increase_stock
restock_price(inc, price, update_price_if_changed) ==
  IF inc.err = "none" /\ update_price_if_changed
  THEN Book_set_price(inc.book, price)
  ELSE inc

price_after(u, price, update_price_if_changed, fresh, now) ==
  IF u.err # "none" \/ ~update_price_if_changed THEN u
  ELSE update_and_return(Book_set_price(u.ret, price), u.file, fresh, now)

\* a faulty add_or_restock: the restocked record is saved before the price is
\* looked at
restock_saved_first(g, title, author, isbn, price, currency, quantity, update_price_if_changed, fresh, now) ==
  IF g.err = "BookNotFoundError"
  THEN add_new(Book_init(title, author, isbn, price, currency, quantity,
                         NoneId, FALSE, NoneTime, fresh, now),
               g.file, fresh, now)
  ELSE IF g.err # "none" THEN Raise(g.err, g.file)
  ELSE price_after(
         update_and_return(Book_increase_stock(g.book, quantity), g.file,
                           fresh, now),
         price, update_price_if_changed, fresh, now)

\* lines 45-65 of add_book: g is the outcome of get_by_isbn
add_or_restock(g, title, author, isbn, price, currency, quantity, update_price_if_changed, fresh, now) ==
  IF g.err = "BookNotFoundError"
  THEN add_new(Book_init(title, author, isbn, price, currency, quantity,
                         NoneId, FALSE, NoneTime, fresh, now),
               g.file, fresh, now)
  ELSE IF g.err # "none" THEN Raise(g.err, g.file)
  ELSE update_and_return(
         restock_price(Book_increase_stock(g.book, quantity), price,
                       update_price_if_changed),
         g.file, fresh, now)

\* InventoryService.add_book
add_book(f, title, author, isbn, price, currency, quantity, update_price_if_changed, fresh, now) ==
  IF quantity <= 0 THEN Raise("ValidationError", f)
  ELSE add_or_restock(get_by_isbn(f, isbn, fresh, now), title, author, isbn,
                      price, currency, quantity, update_price_if_changed,
                      fresh, now)

set_price_of(g, new_price, fresh, now) ==
  IF g.err # "none" THEN Raise(g.err, g.file)
  ELSE update_and_return(Book_set_price(g.book, new_price), g.file, fresh, now)

\* InventoryService.set_price
set_price(f, isbn, new_price, fresh, now) ==
  set_price_of(get_by_isbn(f, isbn, fresh, now), new_price, fresh, now)

set_quantity_of(g, new_qty, fresh, now) ==
  IF g.err # "none" THEN Raise(g.err, g.file)
  ELSE update_and_return(
         [err |-> "none", book |-> [g.book EXCEPT !.quantity = new_qty]],
         g.file, fresh, now)

\* InventoryService.set_quantity
set_quantity(f, isbn, new_qty, fresh, now) ==
  IF new_qty < 0 THEN Raise("ValidationError", f)
  ELSE set_quantity_of(get_by_isbn(f, isbn, fresh, now), new_qty, fresh, now)

increase_stock_of(g, by, fresh, now) ==
  IF g.err # "none" THEN Raise(g.err, g.file)
  ELSE update_and_return(Book_increase_stock(g.book, by), g.file, fresh, now)

\* InventoryService.increase_stock
increase_stock(f, isbn, by, fresh, now) ==
  increase_stock_of(get_by_isbn(f, isbn, fresh, now), by, fresh, now)

decrease_stock_of(g, by, fresh, now) ==
  IF g.err # "none" THEN Raise(g.err, g.file)
  ELSE update_and_return(Book_decrease_stock(g.book, by), g.file, fresh, now)

\* InventoryService.decrease_stock
decrease_stock(f, isbn, by, fresh, now) ==
  decrease_stock_of(get_by_isbn(f, isbn, fresh, now), by, fresh, now)

\* a faulty may_archive: any book may be archived
may_archive_any(book) == TRUE

\* the test of InventoryService.archive_if_empty
may_archive(book) == book.quantity = 0

\* the record returned is the one read before the repository archived its
\* own copy
archive_if_empty_of(g, isbn, fresh, now) ==
  IF g.err # "none" THEN Raise(g.err, g.file)
  ELSE IF ~may_archive(g.book) THEN Raise("ValidationError", g.file)
  ELSE Result(archive_by_isbn(g.file, isbn, fresh, now), g.book)

\* InventoryService.archive_if_empty
archive_if_empty(f, isbn, fresh, now) ==
  archive_if_empty_of(get_by_isbn(f, isbn, fresh, now), isbn, fresh, now)

\* ---------------------------------------------------------------- SalesService
append_to(l, sale) ==
  IF l.err # "none" THEN Raise(l.err, l.file)
  ELSE JSONStore_save(l.file,
         [l.data EXCEPT !.sales = ListF(Append(@.items, Sale_to_dict(sale)))])

\* lines 63-68 of sell: load, append the sale, save
append_sale(f, sale) == append_to(JSONStore_load(f), sale)

\* a faulty sale_price: the sale is logged at no price
zero_price(book) == 0

\* the price sell copies into the sale
sale_price(book) == book.price_cents

\* lines 60-70 of sell: u is the outcome of update
sell_logged(u, sale) ==
  IF u.err # "none" THEN Raise(u.err, u.file)
  ELSE Result(append_sale(u.file, sale), sale)

\* lines 51-61 of sell: sc and dec are the outcomes of Sale.create and of
\* decrease_stock
sell_book(sc, dec, f, fresh, now) ==
  IF sc.err # "none" THEN Raise(sc.err, f)
  ELSE IF dec.err # "none" THEN Raise(dec.err, f)
  ELSE sell_logged(update(f, dec.book, fresh, now), sc.sale)

\* a faulty out_of_stock: the two counts change places
out_of_stock_swapped(book, qty, f) ==
  [err |-> "OutOfStockError", file |-> f, isbn |-> book.isbn,
   requested_qty |-> book.quantity, available_qty |-> qty]

\* raise OutOfStockError(book.isbn, requested_qty=qty,
\*                       available_qty=book.quantity)
out_of_stock(book, qty, f) ==
  [err |-> "OutOfStockError", file |-> f, isbn |-> book.isbn,
   requested_qty |-> qty, available_qty |-> book.quantity]

\* a faulty sell_found: the stock is compared before the archived flag is read
sell_found_stock_first(g, qty, fresh, now) ==
  IF g.err # "none" THEN [err |-> g.err, file |-> g.file]
  ELSE IF g.book.quantity < qty
    THEN [err |-> "OutOfStockError", file |-> g.file, isbn |-> g.book.isbn,
          requested_qty |-> qty, available_qty |-> g.book.quantity]
  ELSE [err |-> "ValidationError", file |-> g.file]

\* lines 42-61 of sell: g is the outcome of get_by_isbn
sell_found(g, qty, fresh, now) ==
  IF g.err # "none" THEN Raise(g.err, g.file)
  ELSE IF g.book.archived THEN Raise("ValidationError", g.file)
  ELSE IF g.book.quantity < qty THEN out_of_stock(g.book, qty, g.file)
  ELSE sell_book(Sale_create(g.book.id, g.book.isbn, qty, sale_price(g.book),
                             g.book.currency, fresh, now),
                 Book_decrease_stock(g.book, qty), g.file, fresh, now)

\* SalesService.sell
sell(f, isbn, qty, fresh, now) ==
  IF qty <= 0 THEN Raise("ValidationError", f)
  ELSE sell_found(get_by_isbn(f, isbn, fresh, now), qty, fresh, now)

RECURSIVE insert_by_timestamp(_, _)
\* place s after every element whose timestamp is not greater (a stable sort)
insert_by_timestamp(sorted, s) ==
  IF sorted = <<>> THEN <<s>>
  ELSE IF s.timestamp < Head(sorted).timestamp THEN <<s>> \o sorted
  ELSE <<Head(sorted)>> \o insert_by_timestamp(Tail(sorted), s)

RECURSIVE sort_by_timestamp(_)
\* list.sort(key=lambda s: s.timestamp)
sort_by_timestamp(sales) ==
  IF sales = <<>> THEN <<>>
  ELSE insert_by_timestamp(
         sort_by_timestamp(SubSeq(sales, 1, Len(sales) - 1)),
         sales[Len(sales)])

NoIsbn == <<>>   \* isbn=None
NoLimit == 0     \* limit=None

\* a faulty last_n: sales[:limit], the oldest records
first_n(sorted, limit) ==
  IF limit # NoLimit /\ limit > 0 /\ limit < Len(sorted)
  THEN SubSeq(sorted, 1, limit)
  ELSE sorted

\* sales[-limit:] for a positive limit
last_n(sorted, limit) ==
  IF limit # NoLimit /\ limit > 0 /\ limit < Len(sorted)
  THEN SubSeq(sorted, Len(sorted) - limit + 1, Len(sorted))
  ELSE sorted

\* [Sale.from_dict(d) for d in raw]
from_dicts(raw) == [i \in 1..Len(raw) |-> Sale_from_dict(raw[i])]

\* lines 84-88 of list_sales: n is the outcome of Sale._normalize_isbn
filter_isbn(sales, isbn, n) ==
  IF isbn = NoIsbn \/ strip(isbn) = <<>> THEN [err |-> "none", sales |-> sales]
  ELSE IF n.err # "none" THEN [err |-> n.err]
  ELSE [err |-> "none", sales |-> SelectSeq(sales, LAMBDA s : s.isbn = n.v)]

sorted_tail(k, f, limit) ==
  IF k.err # "none" THEN Raise(k.err, f)
  ELSE [err |-> "none", file |-> f,
        ret |-> last_n(sort_by_timestamp(k.sales), limit)]

list_loaded(l, isbn, limit) ==
  IF l.err # "none" THEN Raise(l.err, l.file)
  ELSE sorted_tail(filter_isbn(from_dicts(l.data.sales.items), isbn,
                               Sale_normalize_isbn(isbn)),
                   l.file, limit)

\* SalesService.list_sales
list_sales(f, isbn, limit) == list_loaded(JSONStore_load(f), isbn, limit)

RECURSIVE sum_total_cents(_)
\* the loop of sales_total
sum_total_cents(sales) ==
  IF sales = <<>> THEN 0
  ELSE total_cents(Head(sales)) + sum_total_cents(Tail(sales))

total_of(l) ==
  IF l.err # "none" THEN l
  ELSE [err |-> "none", file |-> l.file, ret |-> sum_total_cents(l.ret)]

\* SalesService.sales_total, in cents (the code divides by 100 once, at the end)
sales_total(f, isbn) == total_of(list_sales(f, isbn, NoLimit))

\* ---------------------------------------------------------------- inputs
IsbnA == <<"0", "3", "0", "6", "4", "0", "6", "1", "5", "X">>
IsbnA_raw == <<"0", "-", "3", "0", "6", "-", "4", "0", "6", "1", "5", " ", "x">>
IsbnB == <<"9", "7", "8", "0", "1", "3", "2", "3", "5", "0", "8", "8", "4">>

\* what the callers pass for title, author, isbn and currency
Catalog ==
  { [title |-> <<" ", "A", "b">>, author |-> <<"E", "v">>,
     isbn |-> IsbnA_raw, currency |-> <<"u", "s", "d", " ">>],
    [title |-> <<"A", "b">>, author |-> <<"E", "v", " ">>,
     isbn |-> IsbnB, currency |-> USD] }

LookupIsbns == {IsbnA_raw, IsbnB}

\* prices in mils: a negative amount, 0.025 and 0.035 (2 and 4 cents)
Prices == {-5, 25, 35}

\* ---------------------------------------------------------------- the single writer
Idle == [op |-> "none"]

StockBounded(f) ==
  \A i \in 1..Len(f.books.items) : f.books.items[i].quantity <= MaxQty

\* An operation of the writer run to completion: r is its outcome, usesId
\* tells whether the uuid4() value it drew went into a persisted record.
Finish(op, args, r, usesId) ==
  /\ pc = "idle"
  /\ StockBounded(r.file)
  /\ usesId => nextId <= MaxIds
  /\ pc' = "returned"
  /\ pre' = file
  /\ file' = r.file
  /\ call' = [op |-> op, args |-> args, res |-> r]
  /\ nextId' = IF usesId THEN nextId + 1 ELSE nextId
  /\ UNCHANGED <<tmp, tmpName, robs>>

\* the caller takes the result and goes on to its next call
Acknowledge ==
  /\ pc = "returned"
  /\ pc' = "idle"
  /\ call' = Idle
  /\ pre' = file
  /\ UNCHANGED <<file, tmp, tmpName, nextId, robs>>

AddBook ==
  /\ pc = "idle"
  /\ \E e \in Catalog, p \in Prices, q \in 0..2, u \in BOOLEAN, now \in Times :
      \E r \in {add_book(file, e.title, e.author, e.isbn, p, e.currency, q, u, nextId, now)} :
         Finish("add_book",
                [isbn |-> e.isbn, price |-> p, quantity |-> q,
                 update_price_if_changed |-> u],
                r, r.err = "none" /\ r.ret.id = nextId)

SetPrice ==
  /\ pc = "idle"
  /\ \E isbn \in LookupIsbns, p \in Prices, now \in Times :
      \E r \in {set_price(file, isbn, p, nextId, now)} :
        Finish("set_price", [isbn |-> isbn, price |-> p], r, FALSE)

SetQuantity ==
  /\ pc = "idle"
  /\ \E isbn \in LookupIsbns, q \in -1..MaxQty, now \in Times :
      \E r \in {set_quantity(file, isbn, q, nextId, now)} :
        Finish("set_quantity", [isbn |-> isbn, quantity |-> q], r, FALSE)

IncreaseStock ==
  /\ pc = "idle"
  /\ \E isbn \in LookupIsbns, by \in -1..2, now \in Times :
      \E r \in {increase_stock(file, isbn, by, nextId, now)} :
        Finish("increase_stock", [isbn |-> isbn, by |-> by], r, FALSE)

DecreaseStock ==
  /\ pc = "idle"
  /\ \E isbn \in LookupIsbns, by \in -1..MaxQty, now \in Times :
      \E r \in {decrease_stock(file, isbn, by, nextId, now)} :
        Finish("decrease_stock", [isbn |-> isbn, by |-> by], r, FALSE)

ArchiveIfEmpty ==
  /\ pc = "idle"
  /\ \E isbn \in LookupIsbns, now \in Times :
      \E r \in {archive_if_empty(file, isbn, nextId, now)} :
        Finish("archive_if_empty", [isbn |-> isbn], r, FALSE)

Sell ==
  /\ pc = "idle"
  /\ \E isbn \in LookupIsbns, qty \in 0..(MaxQty + 1), now \in Times :
      \E r \in {sell(file, isbn, qty, nextId, now)} :
         Finish("sell", [isbn |-> isbn, qty |-> qty], r, r.err = "none")

\* the records a caller may hand to BookRepository.add: Book(...) objects
NewBooks(fresh, now) ==
  { b.book : b \in { x \in { Book_init(e.title, e.author, e.isbn, p,
                                        e.currency, q, NoneId, FALSE,
                                        NoneTime, fresh, now) :
                             e \in Catalog, p \in {25}, q \in 0..1 } :
                     x.err = "none" } }

RepoAdd ==
  /\ pc = "idle"
  /\ \E now \in Times :
      \E b \in NewBooks(nextId, now) :
        \E r \in {add(file, b, nextId, now)} :
           Finish("add", [book |-> b], r, r.err = "none")

\* the records a caller may hand to BookRepository.update: a record read
\* from the store, or one whose id the store never held, with its ISBN and
\* quantity set by the caller
with_strangers(known) == known \cup {[b EXCEPT !.id = MaxIds + 1] : b \in known}

books_of(l) ==
  IF l.err # "none" THEN {} ELSE with_strangers({l.books[i] : i \in 1..Len(l.books)})

HeldBooks(f, fresh, now) == books_of(list_all(f, TRUE, fresh, now))

RepoUpdate ==
  /\ pc = "idle"
  /\ \E now \in Times :
      \E b \in HeldBooks(file, nextId, now), isbn \in {IsbnA, IsbnB}, zero \in BOOLEAN :
        \E rec \in {[b EXCEPT !.isbn = isbn, !.quantity = IF zero THEN 0 ELSE @]} :
          \E r \in {update(file, rec, nextId, now)} :
            Finish("update", [book |-> rec], r, FALSE)

RepoRemove ==
  /\ pc = "idle"
  /\ \E id \in 1..MaxIds, now \in Times :
      \E r \in {remove(file, id, nextId, now)} :
        Finish("remove", [id |-> id], r, FALSE)

RepoArchive ==
  /\ pc = "idle"
  /\ \E isbn \in LookupIsbns, now \in Times :
      \E r \in {archive_by_isbn(file, isbn, nextId, now)} :
        Finish("archive_by_isbn", [isbn |-> isbn], r, FALSE)

\* the store was constructed on a path that held no file
Init ==
  /\ file = json_dump(default_data)
  /\ tmp = NoTmp
  /\ tmpName = FALSE
  /\ pc = "idle"
  /\ call = Idle
  /\ pre = json_dump(default_data)
  /\ nextId = 1
  /\ robs = Idle

Next ==
  \/ AddBook
  \/ SetPrice
  \/ SetQuantity
  \/ IncreaseStock
  \/ DecreaseStock
  \/ ArchiveIfEmpty
  \/ Sell
  \/ RepoAdd
  \/ RepoUpdate
  \/ RepoRemove
  \/ RepoArchive
  \/ Acknowledge

Spec == Init /\ [][Next]_vars

\* the operations of the Bookstore facade alone
NextFacade ==
  \/ AddBook
  \/ SetPrice
  \/ SetQuantity
  \/ IncreaseStock
  \/ DecreaseStock
  \/ ArchiveIfEmpty
  \/ Sell
  \/ Acknowledge

SpecFacade == Init /\ [][NextFacade]_vars

\* stocking and selling alone
NextLedger ==
  \/ AddBook
  \/ Sell
  \/ Acknowledge

SpecLedger == Init /\ [][NextLedger]_vars

\* ---------------------------------------------------------------- properties
\* the persisted collections of a file that holds a document
Books(f) == f.books.items
Sales(f) == f.sales.items

\* the normalized form of the ISBNs the callers pass
Norm(isbn) == IF isbn = IsbnA_raw THEN IsbnA ELSE isbn

\* the cents of the valid prices the callers pass: 0.025 is 2.5 cents and
\* rounds to the even 2, 0.035 is 3.5 cents and rounds to the even 4
Cents(mils) == IF mils = 25 THEN 2 ELSE 4

\* positions of the persisted records with the ISBN n
At(f, n) == {i \in 1..Len(Books(f)) : Books(f)[i].isbn = n}

Returned(op) == pc = "returned" /\ call.op = op
Succeeded(op) == Returned(op) /\ call.res.err = "none"
Failed(op, err) == Returned(op) /\ call.res.err = err

\* every record other than the one at i is as it was before the call
OthersKept(i) ==
  /\ Len(Books(file)) = Len(Books(pre))
  /\ \A j \in 1..Len(Books(pre)) : j # i => Books(file)[j] = Books(pre)[j]

\* exactly one sale was appended, for qty copies of b at b's price
OneSaleAppended(b, qty) ==
  /\ Len(Sales(file)) = Len(Sales(pre)) + 1
  /\ SubSeq(Sales(file), 1, Len(Sales(pre))) = Sales(pre)
  /\ Sales(file)[Len(Sales(file))].qty = qty
  /\ Sales(file)[Len(Sales(file))].unit_price_cents = b.price_cents
  /\ Sales(file)[Len(Sales(file))].book_id = b.id
  /\ Sales(file)[Len(Sales(file))].isbn = b.isbn

\* sales_total, for one ISBN and for all, rose by amount
TotalsRaised(isbn, amount) ==
  /\ sales_total(file, isbn).ret = sales_total(pre, isbn).ret + amount
  /\ sales_total(file, NoIsbn).ret = sales_total(pre, NoIsbn).ret + amount

\* C1: for a non-archived book with quantity s and price p and 1 <= qty <= s,
\* sell(isbn, qty) succeeds, leaves the persisted quantity at s - qty, appends
\* exactly one sale with that qty and the price p the book had at call time,
\* raises sales_total by qty * p, and changes no other book and no earlier sale.
C1_SellDecrementsAndLogs ==
  Returned("sell") =>
    \A i \in At(pre, Norm(call.args.isbn)) :
      (/\ ~Books(pre)[i].archived
       /\ call.args.qty >= 1
       /\ call.args.qty <= Books(pre)[i].quantity)
      => /\ call.res.err = "none"
         /\ Books(file)[i] =
              [Books(pre)[i] EXCEPT !.quantity = @ - call.args.qty]
         /\ OthersKept(i)
         /\ OneSaleAppended(Books(pre)[i], call.args.qty)
         /\ TotalsRaised(call.args.isbn,
                         call.args.qty * Books(pre)[i].price_cents)

\* a sale of the whole stock of a book, after an earlier sale of that book
C1_Witness ==
  /\ Succeeded("sell")
  /\ call.args.qty = 2
  /\ Sales(pre) # <<>>
  /\ Len(Sales(file)) = 2
  /\ \E i \in At(file, Norm(call.args.isbn)) : Books(file)[i].quantity = 0

\* C2: for a non-archived book with quantity s and qty > s, sell(isbn, qty)
\* raises OutOfStockError with available_qty = s and requested_qty = qty and
\* leaves the persisted books and sales as they were.
C2_OutOfStockLeavesStore ==
  Returned("sell") =>
    \A i \in At(pre, Norm(call.args.isbn)) :
      (~Books(pre)[i].archived /\ call.args.qty > Books(pre)[i].quantity)
      => /\ call.res.err = "OutOfStockError"
         /\ call.res.available_qty = Books(pre)[i].quantity
         /\ call.res.requested_qty = call.args.qty
         /\ file = pre

\* two copies asked of a book that has one, with a sale already logged
C2_Witness ==
  /\ Failed("sell", "OutOfStockError")
  /\ call.res.available_qty = 1
  /\ call.res.requested_qty = 2
  /\ Sales(pre) # <<>>

\* C3: from the empty store, after any sequence of add, update, remove,
\* archive_by_isbn, add_book, set_price, set_quantity, increase_stock,
\* decrease_stock, archive_if_empty and sell by the single writer, whether
\* they succeed or fail, no two persisted book records have the same
\* normalized ISBN.
C3_OneRecordPerIsbn ==
  \A i, j \in 1..Len(Books(file)) :
    normalize_isbn(Books(file)[i].isbn) = normalize_isbn(Books(file)[j].isbn)
    => i = j

\* update was handed a record carrying the ISBN of the other persisted book
C3_Witness ==
  /\ Returned("update")
  /\ call.res.err # "none"
  /\ Len(Books(file)) = 2
  /\ \E i \in At(file, call.args.book.isbn) :
       Books(file)[i].id # call.args.book.id
  /\ \E i \in 1..2 : Books(file)[i].id = call.args.book.id

\* C4: BookRepository.add of a record whose normalized ISBN a persisted book
\* already has fails with DuplicateISBNError and leaves the persisted books
\* and sales identical to what they were.
C4_DuplicateAddRejected ==
  Returned("add") =>
    (At(pre, call.args.book.isbn) # {}
     => /\ call.res.err = "DuplicateISBNError"
        /\ Books(file) = Books(pre)
        /\ Sales(file) = Sales(pre)
        /\ file = pre)

\* a duplicate is handed to add on a store with two books and a sale
C4_Witness ==
  /\ Failed("add", "DuplicateISBNError")
  /\ Len(Books(pre)) = 2
  /\ Sales(pre) # <<>>

\* C5: add_book with a positive quantity n (and a valid price wherever the
\* price is used): when no persisted book has the normalized ISBN, exactly
\* one record is added, with quantity n; when one has it, with quantity s,
\* the number of records and that record's id stay, its quantity becomes
\* s + n, and its price becomes the supplied one if update_price_if_changed
\* and stays otherwise.  No other record changes.
C5_RestockOrCreate ==
  (Returned("add_book") /\ call.args.quantity > 0) =>
    /\ (At(pre, Norm(call.args.isbn)) = {} /\ call.args.price >= 0)
       => /\ call.res.err = "none"
          /\ Len(Books(file)) = Len(Books(pre)) + 1
          /\ SubSeq(Books(file), 1, Len(Books(pre))) = Books(pre)
          /\ Books(file)[Len(Books(file))].isbn = Norm(call.args.isbn)
          /\ Books(file)[Len(Books(file))].quantity = call.args.quantity
          /\ Books(file)[Len(Books(file))].price_cents = Cents(call.args.price)
          /\ Sales(file) = Sales(pre)
    /\ \A i \in At(pre, Norm(call.args.isbn)) :
         (call.args.update_price_if_changed => call.args.price >= 0)
         => /\ call.res.err = "none"
            /\ OthersKept(i)
            /\ Books(file)[i] =
                 [Books(pre)[i] EXCEPT
                    !.quantity = @ + call.args.quantity,
                    !.price_cents = IF call.args.update_price_if_changed
                                    THEN Cents(call.args.price) ELSE @]
            /\ Books(file)[i].id = Books(pre)[i].id
            /\ Sales(file) = Sales(pre)

\* a restock of one copy onto one copy that also changes the price
C5_Witness ==
  /\ Succeeded("add_book")
  /\ call.args.update_price_if_changed
  /\ call.args.quantity = 1
  /\ \E i \in At(pre, Norm(call.args.isbn)) :
       /\ Books(pre)[i].quantity = 1
       /\ Books(file)[i].quantity = 2
       /\ Books(pre)[i].price_cents # Books(file)[i].price_cents

\* C6: archive_if_empty(isbn) on a persisted book succeeds exactly when its
\* quantity is 0; when it is not 0 the call fails with ValidationError and
\* the file is as before; after a success the persisted book is archived, is
\* not in list_all(include_archived=False) and is returned by get_by_isbn.
C6_ArchiveOnlyWhenEmpty ==
  Returned("archive_if_empty") =>
    \A i \in At(pre, Norm(call.args.isbn)) :
      /\ (call.res.err = "none") <=> (Books(pre)[i].quantity = 0)
      /\ Books(pre)[i].quantity # 0
         => (call.res.err = "ValidationError" /\ file = pre)
      /\ call.res.err = "none"
         => /\ Books(file)[i] = [Books(pre)[i] EXCEPT !.archived = TRUE]
            /\ OthersKept(i)
            /\ \A b \in books_of(list_all(file, FALSE, nextId, 1)) :
                 b.isbn # Norm(call.args.isbn)
            /\ get_by_isbn(file, call.args.isbn, nextId, 1).err = "none"
            /\ get_by_isbn(file, call.args.isbn, nextId, 1).book.archived
            /\ get_by_isbn(file, call.args.isbn, nextId, 1).book.id
                 = Books(pre)[i].id

\* a book that was not archived is archived, beside one that stays listed
C6_Witness ==
  /\ Succeeded("archive_if_empty")
  /\ Len(Books(file)) = 2
  /\ \E i \in At(pre, Norm(call.args.isbn)) :
       ~Books(pre)[i].archived /\ Books(file)[i].archived
  /\ books_of(list_all(file, FALSE, nextId, 1)) # {}

\* ---------------------------------------------------------------- the store, step by step
\* One process calls the constructor, load and save, and _atomic_write runs a
\* step at a time, so that it can fail or be killed between two steps.  A
\* second process loads the file at any moment.

\* a record as BookRepository writes it
SampleItems == to_dicts(<<CHOOSE b \in NewBooks(1, 1) : b.isbn = IsbnB>>)

\* what a field of a document may hold
Fields == {AbsentF, NullF, ScalarF, ListF(<<>>), ListF(SampleItems)}

\* the values a caller may hand to save
SaveDocs ==
  {NonObject, Obj(ListF(<<TupleItem>>), ListF(<<>>)),
   Obj(ListF(<<>>), ListF(<<ObjectItem>>))}
    \cup {Obj(b, ListF(<<>>)) : b \in Fields}
    \cup {Obj(ListF(<<>>), s) : s \in Fields}

\* what the path may hold when the first store is constructed on it
StoreFiles ==
  {Missing, Content("empty"), Content("truncated"), Content("garbage"),
   Content("badutf8")}
    \cup {json_dump(d) : d \in {x \in SaveDocs : serializable(x)}}

AwSteps == {"aw_create", "aw_dump", "aw_name", "aw_close", "aw_replace", "aw_return"}

\* entry of _atomic_write(data), called from op ; line 71 clears tmp_name
BeginWrite(op, arg, data) ==
  /\ pc' = "aw_create"
  /\ call' = [op |-> op, arg |-> arg, data |-> data]
  /\ pre' = file
  /\ tmpName' = FALSE
  /\ UNCHANGED <<file, tmp, nextId, robs>>

\* op returns or raises without having called _atomic_write
StoreReturn(op, arg, r) ==
  /\ pc' = "returned"
  /\ call' = [op |-> op, arg |-> arg, res |-> r]
  /\ pre' = file
  /\ file' = r.file
  /\ UNCHANGED <<tmp, tmpName, nextId, robs>>

\* JSONStore.__init__
Construct ==
  /\ pc = "idle"
  /\ IF file.kind = "missing"
     THEN BeginWrite("init", default_data, default_data)
     ELSE StoreReturn("init", default_data, [err |-> "none", file |-> file])

\* JSONStore.load ; FileNotFoundError leads into _atomic_write
StoreLoad ==
  /\ pc = "idle"
  /\ IF file.kind = "missing"
     THEN BeginWrite("load", default_data, default_data)
     ELSE StoreReturn("load", default_data, JSONStore_load(file))

\* JSONStore.save
StoreSave ==
  /\ pc = "idle"
  /\ \E d \in SaveDocs :
       \E v \in {validate_and_normalize(d, FALSE)} :
         IF v.err # "none"
         THEN StoreReturn("save", d, [err |-> v.err, file |-> file])
         ELSE BeginWrite("save", d, v.data)

\* one step of _atomic_write: w is what the step leaves
AwStep(at, w, to) ==
  /\ pc = at
  /\ pc' = to
  /\ file' = w.file
  /\ tmp' = w.tmp
  /\ UNCHANGED <<tmpName, call, pre, nextId, robs>>

AwCreate == pc = "aw_create" /\ AwStep("aw_create", create_temp(file, tmp), "aw_dump")

\* json.dump goes through only if every element can be written
AwDump ==
  /\ pc = "aw_dump"
  /\ serializable(call.data)
  /\ AwStep("aw_dump", dump_temp(file, tmp, call.data), "aw_name")

\* tmp_name = tf.name
AwName ==
  /\ pc = "aw_name"
  /\ pc' = "aw_close"
  /\ tmpName' = TRUE
  /\ UNCHANGED <<file, tmp, call, pre, nextId, robs>>

AwClose == pc = "aw_close" /\ AwStep("aw_close", close_temp(file, tmp, call.data), "aw_replace")

AwReplace == pc = "aw_replace" /\ AwStep("aw_replace", os_replace(file, tmp), "aw_return")

\* what the caller of _atomic_write goes on to return
after_write(op, data, f) ==
  IF op = "load" THEN load_return(validate_and_normalize(data, TRUE), f)
  ELSE [err |-> "none", file |-> f]

\* _atomic_write returns, and so does the operation that called it
AwReturn ==
  /\ pc = "aw_return"
  /\ pc' = "returned"
  /\ call' = [op |-> call.op, arg |-> call.arg, data |-> call.data,
              res |-> after_write(call.op, call.data, file)]
  /\ UNCHANGED <<file, tmp, tmpName, pre, nextId, robs>>

\* the step about to run raises (an OSError): the except clause cleans up
\* and raises StorageError
AwFail ==
  /\ pc \in AwSteps \ {"aw_return"}
  /\ pc' = "returned"
  /\ file' = remove_temp(file, tmp, tmpName).file
  /\ tmp' = remove_temp(file, tmp, tmpName).tmp
  /\ call' = [op |-> call.op, arg |-> call.arg, data |-> call.data,
              res |-> [err |-> "StorageError", file |-> file], at |-> pc]
  /\ UNCHANGED <<tmpName, pre, nextId, robs>>

\* the process is killed inside _atomic_write: no handler runs
Crash ==
  /\ pc \in AwSteps
  /\ pc' = "dead"
  /\ call' = [op |-> call.op, arg |-> call.arg, data |-> call.data, died |-> pc]
  /\ UNCHANGED <<file, tmp, tmpName, pre, nextId, robs>>

\* a new process takes over the path
Restart ==
  /\ pc = "dead"
  /\ pc' = "idle"
  /\ call' = Idle
  /\ pre' = file
  /\ UNCHANGED <<file, tmp, tmpName, nextId, robs>>

\* the file is deleted between two calls
ExternalDelete ==
  /\ pc = "idle"
  /\ file.kind # "missing"
  /\ file' = Missing
  /\ pre' = Missing
  /\ UNCHANGED <<tmp, tmpName, pc, call, nextId, robs>>

\* the other process opens the file and loads it: it reads the file the
\* path names at that moment, whatever the path is made to name afterwards.
\* robs keeps what it read and what load made of it.
ReaderLoad ==
  /\ file.kind # "missing"
  /\ robs' = [op |-> "load", saw |-> file, res |-> JSONStore_load(file)]
  /\ UNCHANGED <<file, tmp, tmpName, pc, call, pre, nextId>>

InitStore ==
  /\ file \in StoreFiles
  /\ tmp = NoTmp
  /\ tmpName = FALSE
  /\ pc = "idle"
  /\ call = Idle
  /\ pre = file
  /\ nextId = 1
  /\ robs = Idle

NextStore ==
  \/ Construct
  \/ StoreLoad
  \/ StoreSave
  \/ AwCreate
  \/ AwDump
  \/ AwName
  \/ AwClose
  \/ AwReplace
  \/ AwReturn
  \/ AwFail
  \/ Crash
  \/ Restart
  \/ ExternalDelete
  \/ ReaderLoad
  \/ Acknowledge

SpecStore == InitStore /\ [][NextStore]_vars

\* ---------------------------------------------------------------- properties of the store
\* the steps of _atomic_write that come before os.replace has run
BeforeReplace == {"aw_create", "aw_dump", "aw_name", "aw_close", "aw_replace"}

\* the text a save in progress is writing
NewText == json_dump(call.data)

\* the target during and after a save
TargetIsOldOrNew ==
  call.op = "save" =>
    /\ pc \in BeforeReplace => file = pre
    /\ pc = "aw_return" => file = NewText
    /\ pc = "dead" => file = IF call.died = "aw_return" THEN NewText ELSE pre
    /\ pc = "returned" => file = IF call.res.err = "none" THEN NewText ELSE pre

\* a load of the other process that falls inside a save
ReaderSeesOldOrNew ==
  (robs' # robs /\ call.op = "save" /\ pc \in AwSteps)
  => /\ robs'.saw \in {pre, NewText}
     /\ robs'.res = JSONStore_load(robs'.saw)

\* C7: at every step of save the target file holds either the complete
\* content it had before the call or the complete new document: while the
\* temporary file is created, written and named the target is as before, a
\* failure or a kill before the rename leaves it as before, after the rename
\* it is the new document; and a load of another process that falls inside
\* the save reads one of the two.
C7_SaveIsAtomic == [](TargetIsOldOrNew) /\ [][ReaderSeesOldOrNew]_vars

\* the writer was killed with the temporary file written and the rename not
\* done, and the reader loaded the old document meanwhile
C7_Witness ==
  /\ pc = "dead"
  /\ call.op = "save"
  /\ call.died = "aw_replace"
  /\ pre.kind = "object"
  /\ tmp = NewText
  /\ tmp # file
  /\ file = pre
  /\ robs.op = "load"
  /\ robs.saw = pre

\* content json.load cannot parse
Unparseable(f) == f.kind \in {"empty", "truncated", "garbage", "badutf8"}

\* a field that is present and holds something other than a list
PresentNonList(fld) == fld.st \in {"null", "scalar"}

\* C8 as stated: load of an existing file fails with StorageError and leaves
\* the file as it was when the content cannot be parsed, when the root is no
\* object, and when books or sales is present with a non-list value, null
\* included.
C8_LoadRejectsBadShapes ==
  (Returned("load") /\ pre.kind # "missing") =>
    ((\/ Unparseable(pre)
      \/ pre.kind = "nonobject"
      \/ /\ pre.kind = "object"
         /\ PresentNonList(pre.books) \/ PresentNonList(pre.sales))
     => (call.res.err = "StorageError" /\ file = pre))

\* load returned a document for a file whose books field is null
C8_Witness ==
  /\ Succeeded("load")
  /\ pre.kind = "object"
  /\ pre.books.st = "null"
  /\ call.res.data.books = ListF(<<>>)

\* what load returns for a field that is absent or a list
Defaulted(fld) == IF fld.st = "absent" THEN ListF(<<>>) ELSE fld

\* C9: load accepts a document in which books or sales is absent as a key and
\* returns it with the empty list in the absent field's place; every
\* successful load returns both fields as lists; save of anything in which
\* either field is absent or no list fails with StorageError and leaves the
\* file as it was.
C9_ShapeLeniencyIsAsymmetric ==
  /\ (/\ Returned("load")
      /\ pre.kind = "object"
      /\ pre.books.st \in {"absent", "list"}
      /\ pre.sales.st \in {"absent", "list"})
     => /\ call.res.err = "none"
        /\ call.res.data = Obj(Defaulted(pre.books), Defaulted(pre.sales))
        /\ file = pre
  /\ Succeeded("load")
     => /\ call.res.data.books.st = "list"
        /\ call.res.data.sales.st = "list"
  /\ (/\ Returned("save")
      /\ \/ call.arg.kind # "object"
         \/ call.arg.books.st # "list"
         \/ call.arg.sales.st # "list")
     => (call.res.err = "StorageError" /\ file = pre)

\* save refuses a document without books on a file that itself lacks sales,
\* a file load accepts
C9_Witness ==
  /\ Failed("save", "StorageError")
  /\ call.arg.kind = "object"
  /\ call.arg.books.st = "absent"
  /\ file.kind = "object"
  /\ file.sales.st = "absent"
  /\ JSONStore_load(file).err = "none"

\* {"books": [], "sales": []}
EmptyDocument == Obj(ListF(<<>>), ListF(<<>>))

\* C10: the constructor, when it does not fail, writes the document
\* {books: [], sales: []} on a path that holds no file and leaves an existing
\* file as it is, without entering _atomic_write; load, when the file is
\* missing and the write does not fail, writes that document and returns it;
\* and load of the file a constructor has just written returns it.
C10_Bootstrap ==
  /\ Succeeded("init")
     => IF pre.kind = "missing"
        THEN /\ file = json_dump(EmptyDocument)
             /\ JSONStore_load(file).err = "none"
             /\ JSONStore_load(file).data = EmptyDocument
             /\ JSONStore_load(file).file = file
        ELSE file = pre
  /\ (call.op = "init" /\ pre.kind # "missing")
     => (pc = "returned" /\ call.res.err = "none" /\ file = pre)
  /\ (Succeeded("load") /\ pre.kind = "missing")
     => /\ file = json_dump(EmptyDocument)
        /\ call.res.data = EmptyDocument

\* load found no file and has written and returned the empty document
C10_Witness ==
  /\ Succeeded("load")
  /\ pre.kind = "missing"
  /\ file = json_dump(EmptyDocument)
  /\ call.res.data = EmptyDocument

\* a document of dicts, as Book.to_dict and Sale.to_dict give them
OfRecords(d) ==
  /\ \A i \in 1..Len(d.books.items) : "py" \notin DOMAIN d.books.items[i]
  /\ \A i \in 1..Len(d.sales.items) : "py" \notin DOMAIN d.sales.items[i]

IsPrefix(a, b) == Len(a) <= Len(b) /\ SubSeq(b, 1, Len(a)) = a

\* C12: under the single writer the sales collection only grows at its end:
\* whatever the operation (set_price, set_quantity, add_book,
\* archive_if_empty, remove, a further sell, ...), the sales persisted before
\* it are, record for record and field for field, the beginning of the sales
\* persisted after it; a set_price leaves the sales as they are.  As pre is
\* the file of the state before, this carries over to every earlier state.
C12_SalesAppendOnly ==
  /\ IsPrefix(Sales(pre), Sales(file))
  /\ (pc = "returned" /\ call.op # "sell") => Sales(file) = Sales(pre)

\* the price of a book was changed after a sale of it at another price
C12_Witness ==
  /\ Succeeded("set_price")
  /\ Sales(file) # <<>>
  /\ \E i \in At(file, Norm(call.args.isbn)) :
       /\ Books(file)[i].price_cents # Books(pre)[i].price_cents
       /\ Sales(file)[1].isbn = Books(file)[i].isbn
       /\ Sales(file)[1].unit_price_cents = Books(pre)[i].price_cents

\* ---------------------------------------------------------------- the queries
\* One process runs the read operations on a file that earlier runs have
\* left: the sales were logged at any times and in any order of arrival.

\* all sequences over S of length at most n
SeqsUpTo(S, n) == UNION {[1..k -> S] : k \in 0..n}

\* the sale record that sell logs at time w.now for the book of ISBN w.isbn,
\* as the i-th record of the file
logged_sale(i, w) ==
  Sale_to_dict(Sale_create(IF w.isbn = IsbnA THEN 1 ELSE 2, w.isbn, 1, 2,
                           USD, 10 + i, w.now).sale)

logged_sales(ws) == [i \in 1..Len(ws) |-> logged_sale(i, ws[i])]

\* the sales collections the queries are run on
SalesLogs ==
  {logged_sales(ws) :
     ws \in SeqsUpTo([isbn : {IsbnA, IsbnB}, now : 1..MaxStamp], MaxLen)}

\* what the callers pass for isbn: nothing, two ISBNs, and no ISBN at all
IsbnFilters == {NoIsbn, IsbnA_raw, IsbnB, <<"x">>}

\* what the callers pass for limit (NoLimit stands for None as well)
Limits == -1..(MaxLen + 1)

ListSales ==
  /\ pc = "idle"
  /\ \E isbn \in IsbnFilters, limit \in Limits :
      \E r \in {list_sales(file, isbn, limit)} :
        Finish("list_sales", [isbn |-> isbn, limit |-> limit], r, FALSE)

SalesTotal ==
  /\ pc = "idle"
  /\ \E isbn \in IsbnFilters :
      \E r \in {sales_total(file, isbn)} :
        Finish("sales_total", [isbn |-> isbn], r, FALSE)

IsbnC == <<"0", "3", "0", "6", "4", "0", "6", "1", "5", "2">>

\* three books as add_book persists them; by (title, author) lowercased the
\* third comes first and the first comes last
Titled(id, title, author, isbn, archived) ==
  Book_to_dict([id |-> id, created_at |-> 1, title |-> title,
                author |-> author, isbn |-> isbn, currency |-> USD,
                price_cents |-> 2, quantity |-> 1, archived |-> archived])

BookBa == Titled(1, <<"B", "a">>, <<"E", "v">>, IsbnA, FALSE)
BookAb == Titled(2, <<"a", "b">>, <<"E", "v">>, IsbnB, TRUE)
BookAB == Titled(3, <<"A", "b">>, <<"D", "u">>, IsbnC, FALSE)

WellFormed == {BookBa, BookAb, BookAB}

\* records that another program or an editor left in the books collection:
\* a blank title, an ISBN of two digits, a negative quantity, a negative
\* price, and a record without the key "title"
Malformed ==
  { [BookBa EXCEPT !.id = 4, !.title = <<" ">>],
    [BookBa EXCEPT !.id = 5, !.isbn = <<"1", "2">>],
    [BookBa EXCEPT !.id = 6, !.quantity = -1],
    [BookBa EXCEPT !.id = 7, !.price_cents = -1],
    [BookBa EXCEPT !.id = 8, !.absent = {"title"}] }

\* the books collections the queries are run on: no record twice
Shelves ==
  {bs \in SeqsUpTo(WellFormed \cup Malformed, MaxLen) :
     \A i, j \in 1..Len(bs) : bs[i] = bs[j] => i = j}

\* what the callers pass for query: nothing, blanks, and texts in either case
Queries ==
  {<<>>, <<" ", "\n">>, <<"B">>, <<" ", "a", "B", " ">>, <<"x">>, <<"e", "V">>}

Search ==
  /\ pc = "idle"
  /\ \E query \in Queries, include_archived \in BOOLEAN, limit \in Limits :
      \E r \in {search(file, query, include_archived, limit, nextId, 1)} :
        Finish("search", [query |-> query, include_archived |-> include_archived,
                          limit |-> limit], r, FALSE)

ListAll ==
  /\ pc = "idle"
  /\ \E include_archived \in BOOLEAN :
      \E r \in {list_all(file, include_archived, nextId, 1)} :
        Finish("list_all", [include_archived |-> include_archived], r, FALSE)

GetByIsbn ==
  /\ pc = "idle"
  /\ \E isbn \in {IsbnA_raw, IsbnB, IsbnC} :
      \E r \in {get_by_isbn(file, isbn, nextId, 1)} :
        Finish("get_by_isbn", [isbn |-> isbn], r, FALSE)

QueryFiles ==
  {json_dump(Obj(ListF(<<>>), ListF(sales))) : sales \in SalesLogs}
  \cup {json_dump(Obj(ListF(books), ListF(<<>>))) : books \in Shelves}

InitQuery ==
  /\ file \in QueryFiles
  /\ tmp = NoTmp
  /\ tmpName = FALSE
  /\ pc = "idle"
  /\ call = Idle
  /\ pre = file
  /\ nextId = 1
  /\ robs = Idle

NextQuery ==
  \/ ListSales
  \/ SalesTotal
  \/ Search
  \/ ListAll
  \/ GetByIsbn
  \/ Acknowledge

SpecQuery == InitQuery /\ [][NextQuery]_vars

\* the repository changing a books collection that holds such records; the
\* ids of the records of the shelves are taken, and uuid4() gives the next one
FirstFreeId == Cardinality(WellFormed \cup Malformed) + 1

ShelfFiles == {json_dump(Obj(ListF(books), ListF(<<>>))) : books \in Shelves}

ShelfAdd ==
  /\ pc = "idle"
  /\ \A i \in 1..Len(file.books.items) : file.books.items[i].id # nextId
  /\ \E now \in Times :
      \E b \in NewBooks(nextId, now) :
        \E r \in {add(file, b, nextId, now)} :
           Finish("add", [book |-> b], r, FALSE)

InitShelf ==
  /\ file \in ShelfFiles
  /\ tmp = NoTmp
  /\ tmpName = FALSE
  /\ pc = "idle"
  /\ call = Idle
  /\ pre = file
  /\ nextId = FirstFreeId
  /\ robs = Idle

NextShelf ==
  \/ ShelfAdd
  \/ RepoUpdate
  \/ RepoRemove
  \/ RepoArchive
  \/ Acknowledge

SpecShelf == InitShelf /\ [][NextShelf]_vars

\* ---------------------------------------------------------------- properties of the queries
\* the persisted sales a filter selects
Selected(f, isbn) ==
  SelectSeq(Sales(f), LAMBDA d : isbn = NoIsbn \/ d.isbn = Norm(isbn))

\* oldest first
Ascending(r) ==
  \A i, j \in 1..Len(r) : i < j => r[i].timestamp <= r[j].timestamp

\* r holds the records of w, each once
SameRecords(r, w) ==
  /\ Len(r) = Len(w)
  /\ {r[i] : i \in 1..Len(r)} = {w[i] : i \in 1..Len(w)}

\* the last n records of r
LastOf(r, n) ==
  IF n >= Len(r) THEN r ELSE SubSeq(r, Len(r) - n + 1, Len(r))

\* C13: list_sales(isbn, limit), for no ISBN or a well-formed one, returns the
\* sales (those of the ISBN, if one is given) sorted ascending by timestamp;
\* for a positive limit N it returns exactly the last min(N, count) records
\* of that sorted sequence, still ascending; for limit None, zero or negative
\* it returns the whole sorted sequence.  The file is not changed.
C13_ListSalesLastN ==
  (Returned("list_sales") /\ call.args.isbn # <<"x">>) =>
    /\ call.res.err = "none"
    /\ file = pre
    /\ Ascending(call.res.ret)
    /\ Ascending(list_sales(pre, call.args.isbn, NoLimit).ret)
    /\ SameRecords(list_sales(pre, call.args.isbn, NoLimit).ret,
                   Selected(pre, call.args.isbn))
    /\ call.res.ret =
         IF call.args.limit > 0
         THEN LastOf(list_sales(pre, call.args.isbn, NoLimit).ret,
                     call.args.limit)
         ELSE list_sales(pre, call.args.isbn, NoLimit).ret

\* three sales logged out of time order, the last two asked for
C13_Witness ==
  /\ Succeeded("list_sales")
  /\ call.args.limit = 2
  /\ call.args.isbn = NoIsbn
  /\ Len(Sales(pre)) = 3
  /\ Sales(pre)[1].timestamp > Sales(pre)[3].timestamp
  /\ Len(call.res.ret) = 2
  /\ call.res.ret[2] = Sales(pre)[1]

\* positions of the persisted records with the id
WithId(f, id) == {i \in 1..Len(Books(f)) : Books(f)[i].id = id}

\* the books after the call are those before it without the one at i
RemovedAt(i) ==
  /\ Len(Books(file)) = Len(Books(pre)) - 1
  /\ \A j \in 1..Len(Books(pre)) :
       /\ j < i => Books(file)[j] = Books(pre)[j]
       /\ j > i => Books(file)[j - 1] = Books(pre)[j]

\* C14: remove(id) of a persisted book deletes exactly that record:
\* get_by_id(id) then fails with BookNotFoundError, the other records keep
\* their content and relative order, and the sales are unchanged, sales of the
\* removed book included; remove of an id that no persisted book has fails
\* with BookNotFoundError and leaves the file as it is.
C14_RemoveDeletesOneRecord ==
  Returned("remove") =>
    /\ \A i \in WithId(pre, call.args.id) :
         /\ call.res.err = "none"
         /\ RemovedAt(i)
         /\ Sales(file) = Sales(pre)
         /\ get_by_id(file, call.args.id, nextId, 1).err = "BookNotFoundError"
    /\ WithId(pre, call.args.id) = {}
       => (call.res.err = "BookNotFoundError" /\ file = pre)

\* the first of two books is removed while a sale of it is on the ledger
C14_Witness ==
  /\ Succeeded("remove")
  /\ Len(Books(pre)) = 2
  /\ Books(pre)[1].id = call.args.id
  /\ Books(file) = <<Books(pre)[2]>>
  /\ Sales(file) # <<>>
  /\ Sales(file)[1].book_id = call.args.id

\* the first persisted record with the ISBN n, the one get_by_isbn returns
FirstAt(f, n) == {i \in At(f, n) : \A j \in At(f, n) : i <= j}

\* C15: sell checks the quantity asked, then looks the book up, then reads
\* its archived flag, then compares the stock, and the first check that fails
\* decides the error: qty <= 0 gives ValidationError whether or not the ISBN
\* is known; an unknown ISBN gives BookNotFoundError; an archived book gives
\* ValidationError whether or not qty exceeds its stock; OutOfStockError is
\* given to a book that is not archived and has fewer than qty copies, and to
\* no other call. A call that fails leaves books and sales as they were.
C15_SellCheckOrder ==
  Returned("sell") =>
    /\ call.args.qty <= 0 => call.res.err = "ValidationError"
    /\ (call.args.qty > 0 /\ At(pre, Norm(call.args.isbn)) = {})
       => call.res.err = "BookNotFoundError"
    /\ \A i \in FirstAt(pre, Norm(call.args.isbn)) :
         call.args.qty > 0 =>
           /\ Books(pre)[i].archived => call.res.err = "ValidationError"
           /\ (~Books(pre)[i].archived
               /\ Books(pre)[i].quantity < call.args.qty)
              => call.res.err = "OutOfStockError"
           /\ call.res.err = "OutOfStockError"
              => (~Books(pre)[i].archived
                  /\ Books(pre)[i].quantity < call.args.qty)
    /\ call.res.err = "OutOfStockError"
       => (call.args.qty > 0 /\ At(pre, Norm(call.args.isbn)) # {})
    /\ call.res.err # "none"
       => (Books(file) = Books(pre) /\ Sales(file) = Sales(pre)
           /\ file = pre)

\* more copies than an archived book holds were asked for, next to another
\* book and with a sale on the ledger
C15_Witness ==
  /\ Failed("sell", "ValidationError")
  /\ Len(Books(pre)) = 2
  /\ Sales(pre) # <<>>
  /\ \E i \in FirstAt(pre, Norm(call.args.isbn)) :
       /\ Books(pre)[i].archived
       /\ Books(pre)[i].quantity = 1
       /\ call.args.qty = 2

\* positions of the persisted records that have the ISBN of the record rec
\* under another id
Colliding(f, rec) == {j \in At(f, rec.isbn) : Books(f)[j].id # rec.id}

\* C16: update(record) fails with BookNotFoundError when no persisted book
\* has the record's id, and with DuplicateISBNError when a persisted book of
\* another id has the record's ISBN, the file staying as it was in both
\* cases; otherwise the record takes the place of the one with its id, and
\* the other records, their number and their order stay.
C16_UpdateChecks ==
  Returned("update") =>
    /\ WithId(pre, call.args.book.id) = {}
       => (call.res.err = "BookNotFoundError" /\ file = pre)
    /\ (WithId(pre, call.args.book.id) # {}
        /\ Colliding(pre, call.args.book) # {})
       => (call.res.err = "DuplicateISBNError" /\ file = pre)
    /\ \A i \in WithId(pre, call.args.book.id) :
         Colliding(pre, call.args.book) = {}
         => /\ call.res.err = "none"
            /\ OthersKept(i)
            /\ Books(file)[i].id = call.args.book.id
            /\ Books(file)[i].isbn = call.args.book.isbn
            /\ Books(file)[i].quantity = call.args.book.quantity

\* update was handed the first of two books under the ISBN of the second, and
\* what it raised is not one of the errors of the package
C16_Witness ==
  /\ Failed("update", "NameError")
  /\ file = pre
  /\ Len(Books(pre)) = 2
  /\ Books(pre)[1].id = call.args.book.id
  /\ Books(pre)[2].isbn = call.args.book.isbn

\* every record of the books collection is one of the well-formed ones
AllWellFormed(f) == \A i \in 1..Len(Books(f)) : Books(f)[i] \in WellFormed

Blank(query) == \A i \in 1..Len(query) : query[i] \in WhiteSpace

\* q occurs in s, letters compared without regard to case
Occurs(q, s) ==
  \E i \in 0..(Len(s) - Len(q)) :
    \A k \in 1..Len(q) : upperChar(q[k]) = upperChar(s[i + k])

Hit(q, d) == Occurs(q, d.title) \/ Occurs(q, d.author) \/ Occurs(q, d.isbn)

\* the persisted records the query matches, in document order
Hits(f, query, include_archived) ==
  SelectSeq(Books(f), LAMBDA d : /\ include_archived \/ ~d.archived
                                 /\ Hit(strip(query), d))

FirstOf(hits, n) == SubSeq(hits, 1, IF n < Len(hits) THEN n ELSE Len(hits))

IdsOf(records) == {records[i].id : i \in 1..Len(records)}

SortedByKey(r) == \A i \in 1..(Len(r) - 1) : ~key_lt(r[i + 1], r[i])

\* the result holds the first n matching records and is sorted
HoldsFirst(n) ==
  /\ Len(call.res.ret) = Len(FirstOf(Hits(pre, call.args.query,
                                          call.args.include_archived), n))
  /\ IdsOf(call.res.ret) = IdsOf(FirstOf(Hits(pre, call.args.query,
                                              call.args.include_archived), n))
  /\ SortedByKey(call.res.ret)

\* C17: search on well-formed books gives the empty result for an empty or
\* blank query; for any other query and every limit >= 0 the result holds at
\* most limit books, which are the first limit books in document order that
\* have the query, compared without regard to case, in the title, the author
\* or the ISBN, and it is sorted by (title, author) in lower case.
C17_SearchFirstLimit ==
  (Returned("search") /\ AllWellFormed(pre)) =>
    /\ call.res.err = "none"
    /\ file = pre
    /\ Blank(call.args.query) => call.res.ret = <<>>
    /\ (~Blank(call.args.query) /\ call.args.limit >= 0)
       => (Len(call.res.ret) <= call.args.limit
           /\ HoldsFirst(call.args.limit))

\* limit = 0 was passed and a book was returned, the first of three that match
C17_Witness ==
  /\ Succeeded("search")
  /\ call.args.limit = 0
  /\ Len(Hits(pre, call.args.query, call.args.include_archived)) = 3
  /\ Len(call.res.ret) = 1
  /\ call.res.ret[1].id = Books(pre)[1].id

\* the file without the records that are not well-formed
Cleaned(f) ==
  [f EXCEPT !.books.items = SelectSeq(@, LAMBDA d : d \in WellFormed)]

\* what the caller gets: the error, or the value returned
Outcome(r) == [k \in DOMAIN r \ {"file"} |-> r[k]]

\* the same call on the file f
Again(f) ==
  IF call.op = "list_all"
    THEN list_all(f, call.args.include_archived, nextId, 1)
  ELSE IF call.op = "get_by_isbn"
    THEN get_by_isbn(f, call.args.isbn, nextId, 1)
  ELSE search(f, call.args.query, call.args.include_archived,
              call.args.limit, nextId, 1)

\* C18: on a books collection that mixes well-formed records with records
\* that fail validation (a blank title, a malformed ISBN, a negative quantity
\* or price, a required key missing), list_all, get_by_isbn and search raise
\* nothing but the BookNotFoundError of a lookup, and give what they give on
\* the collection of the well-formed records alone, in document order.
C18_LenientDecode ==
  (pc = "returned" /\ call.op \in {"list_all", "get_by_isbn", "search"}) =>
    /\ call.res.err \in {"none", "BookNotFoundError"}
    /\ Outcome(call.res) = Outcome(Again(Cleaned(pre)))
    /\ file = pre

\* list_all met a record without "title" behind a well-formed record
C18_Witness ==
  /\ Failed("list_all", "KeyError")
  /\ Len(Books(pre)) = 2
  /\ Books(pre)[1] \in WellFormed
  /\ "title" \in Books(pre)[2].absent

\* ---------------------------------------------------------------- writers, load by load
\* Each writer is a process with its own Bookstore on the same path. An
\* operation is a sequence of steps, each one load or one save of the store:
\* the load of get_by_isbn, the load of _load_books in update or add, the load
\* and the save of _save_books and, for sell, the load and the save of the
\* sale. Here pc and call are functions of the writer: pc[w] is the position
\* of w and call[w] holds its local variables; pre is a record of history:
\* the file at the start, and whether a save has removed a record that was in
\* the file.

NoSale == [sale_id |-> 0]
NoBook == [id |-> 0]

\* the outcome of the steps of an operation before update or add is called
Fails(err) == [err |-> err, how |-> "none", book |-> NoBook, sale |-> NoSale]

to_update(b, sale) ==
  IF b.err # "none" THEN Fails(b.err)
  ELSE [err |-> "none", how |-> "update", book |-> b.book, sale |-> sale]

to_add(b) ==
  IF b.err # "none" THEN Fails(b.err)
  ELSE [err |-> "none", how |-> "add", book |-> b.book, sale |-> NoSale]

\* lines 51-60 of sell: sc and dec are the outcomes of Sale.create and of
\* decrease_stock
sell_created(sc, dec) ==
  IF sc.err # "none" THEN Fails(sc.err) ELSE to_update(dec, sc.sale)

\* lines 42-60 of sell: g is the outcome of get_by_isbn
sell_checked(g, qty, fresh, now) ==
  IF g.err # "none" THEN Fails(g.err)
  ELSE IF g.book.archived THEN Fails("ValidationError")
  ELSE IF g.book.quantity < qty THEN Fails("OutOfStockError")
  ELSE sell_created(Sale_create(g.book.id, g.book.isbn, qty,
                                sale_price(g.book), g.book.currency, fresh,
                                now),
                    Book_decrease_stock(g.book, qty))

\* sell up to the call of update
sell_begin(f, isbn, qty, fresh, now) ==
  IF qty <= 0 THEN Fails("ValidationError")
  ELSE sell_checked(get_by_isbn(f, isbn, fresh, now), qty, fresh, now)

increase_checked(g, by) ==
  IF g.err # "none" THEN Fails(g.err)
  ELSE to_update(Book_increase_stock(g.book, by), NoSale)

\* increase_stock up to the call of update
increase_begin(f, isbn, by, fresh, now) ==
  increase_checked(get_by_isbn(f, isbn, fresh, now), by)

\* lines 45-64 of add_book: g is the outcome of get_by_isbn
add_checked(g, e, price, quantity, fresh, now) ==
  IF g.err = "BookNotFoundError"
  THEN to_add(Book_init(e.title, e.author, e.isbn, price, e.currency,
                        quantity, NoneId, FALSE, NoneTime, fresh, now))
  ELSE IF g.err # "none" THEN Fails(g.err)
  ELSE to_update(restock_price(Book_increase_stock(g.book, quantity), price,
                               TRUE),
                 NoSale)

\* add_book up to the call of add or update
add_begin(f, e, price, quantity, fresh, now) ==
  IF quantity <= 0 THEN Fails("ValidationError")
  ELSE add_checked(get_by_isbn(f, e.isbn, fresh, now), e, price, quantity,
                   fresh, now)

\* lines 69-75 of update, before _save_books
listed_for_update(books, idx, book) ==
  IF idx = 0 THEN [err |-> "BookNotFoundError", books |-> <<>>]
  ELSE IF update_collides(books, idx, book)
    THEN [err |-> "NameError", books |-> <<>>]
  ELSE [err |-> "none", books |-> [books EXCEPT ![idx] = book]]

\* a faulty listed_for_add: the book is appended whatever the list holds
listed_unchecked(books, book) == [err |-> "none", books |-> Append(books, book)]

\* lines 61-64 of add, before _save_books
listed_for_add(books, book) ==
  IF add_collides(books, book)
  THEN [err |-> "DuplicateISBNError", books |-> <<>>]
  ELSE [err |-> "none", books |-> Append(books, book)]

\* update or add up to the call of _save_books: l is the outcome of
\* _load_books
listed(l, how, book) ==
  IF l.err # "none" THEN [err |-> l.err, books |-> <<>>]
  ELSE IF how = "add" THEN listed_for_add(l.books, book)
  ELSE listed_for_update(l.books, find_index_by_id(l.books, book.id), book)

\* a faulty with_books: the books go into a fresh document
with_books_fresh(data, books) == Obj(ListF(to_dicts(books)), ListF(<<>>))

\* line 111 of _save_books: data["books"] = [b.to_dict() for b in books]
with_books(data, books) == [data EXCEPT !.books = ListF(to_dicts(books))]

\* a faulty with_sale: nothing is appended
with_no_sale(data, sale) == data

\* lines 64-67 of sell: sales.append(sale.to_dict()); data["sales"] = sales
with_sale(data, sale) ==
  [data EXCEPT !.sales = ListF(Append(@.items, Sale_to_dict(sale)))]

NoData == [kind |-> "none"]

Rest == [op |-> "none", n |-> 0]

\* the local variables of a writer that has begun an operation
Began(op, args, b, n) ==
  [op |-> op, args |-> args, n |-> n, err |-> b.err, how |-> b.how,
   book |-> b.book, sale |-> b.sale, books |-> <<>>, seen |-> NoData,
   data |-> NoData, at |-> "idle", crossed |-> FALSE]

\* the writer w moves: its position and its local variables
Move(w, to, local) ==
  /\ pc' = [pc EXCEPT ![w] = to]
  /\ call' = [call EXCEPT ![w] = local]

\* an exception leaves the operation from the position pc[w]
Leave(w, err) ==
  Move(w, "returned", [call[w] EXCEPT !.err = err, !.at = pc[w]])

\* the number of operations the writers have begun
Begun == Cardinality(UNION {{w} \X (1..call[w].n) : w \in DOMAIN call})

\* the first step of an operation, which holds the load of get_by_isbn
Begin(w, op, args, b, usesId) ==
  /\ pc[w] = "idle"
  /\ Begun < MaxOps
  /\ Move(w, IF b.err = "none" THEN "looked" ELSE "returned",
          Began(op, args, b, call[w].n + 1))
  /\ nextId' = IF usesId THEN nextId + 1 ELSE nextId
  /\ UNCHANGED <<file, tmp, tmpName, pre, robs>>

BeginSell(w) ==
  /\ pc[w] = "idle"
  /\ \E qty \in 1..MaxQty :
      \E b \in {sell_begin(file, IsbnA_raw, qty, nextId, 1)} :
        Begin(w, "sell", [isbn |-> IsbnA_raw, qty |-> qty], b, b.err = "none")

BeginIncrease(w) ==
  /\ pc[w] = "idle"
  /\ \E b \in {increase_begin(file, IsbnA_raw, 1, nextId, 1)} :
       Begin(w, "increase_stock", [isbn |-> IsbnA_raw, by |-> 1], b, FALSE)

BeginAdd(w) ==
  /\ pc[w] = "idle"
  /\ \E e \in Catalog :
      \E b \in {add_begin(file, e, 25, 1, nextId, 1)} :
        Begin(w, "add_book", [isbn |-> e.isbn, quantity |-> 1], b,
              b.how = "add")

\* the load of _load_books in update or add, and the code up to _save_books
ListBooks(w) ==
  /\ pc[w] = "looked"
  /\ \E l \in {listed(load_books(file, nextId, 1), call[w].how, call[w].book)} :
       IF l.err # "none" THEN Leave(w, l.err)
       ELSE Move(w, "listed", [call[w] EXCEPT !.books = l.books])
  /\ UNCHANGED <<file, tmp, tmpName, pre, nextId, robs>>

\* the load of _save_books
LoadDoc(w) ==
  /\ pc[w] = "listed"
  /\ \E d \in {JSONStore_load(file)} :
       IF d.err # "none" THEN Leave(w, d.err)
       ELSE Move(w, "loaded",
                 [call[w] EXCEPT !.seen = d.data,
                                 !.data = with_books(d.data, call[w].books)])
  /\ UNCHANGED <<file, tmp, tmpName, pre, nextId, robs>>

\* a record of f is not in g: a sale, or the book of some id
Lost(f, g) ==
  \/ \E i \in 1..Len(Sales(f)) :
       \A j \in 1..Len(Sales(g)) : Sales(g)[j] # Sales(f)[i]
  \/ \E i \in 1..Len(Books(f)) :
       \A j \in 1..Len(Books(g)) : Books(g)[j].id # Books(f)[i].id

\* the writers that are between the two saves of a sell
Between(v) == pc[v] \in {"saved", "appended"}

\* the save of w lands: the file becomes r.file
Lands(w, to, r) ==
  /\ StockBounded(r.file)
  /\ file' = r.file
  /\ pre' = [pre EXCEPT !.lost = @ \/ Lost(file, r.file)]
  /\ pc' = [pc EXCEPT ![w] = to]
  /\ call' = [v \in DOMAIN call |->
                IF v = w THEN [call[w] EXCEPT !.at = "done"]
                ELSE IF Between(v) THEN [call[v] EXCEPT !.crossed = TRUE]
                ELSE call[v]]
  /\ UNCHANGED <<tmp, tmpName, nextId, robs>>

\* the save of _save_books; sell goes on, the other operations return
SaveDoc(w) ==
  /\ pc[w] = "loaded"
  /\ \E r \in {JSONStore_save(file, call[w].data)} :
       /\ r.err = "none"
       /\ Lands(w, IF call[w].op = "sell" THEN "saved" ELSE "returned", r)

\* line 63 of sell: the load before the sale is appended
LoadLedger(w) ==
  /\ pc[w] = "saved"
  /\ \E d \in {JSONStore_load(file)} :
       IF d.err # "none" THEN Leave(w, d.err)
       ELSE Move(w, "appended",
                 [call[w] EXCEPT !.seen = d.data,
                                 !.data = with_sale(d.data, call[w].sale)])
  /\ UNCHANGED <<file, tmp, tmpName, pre, nextId, robs>>

\* line 68 of sell: the save of the document with the sale
SaveLedger(w) ==
  /\ pc[w] = "appended"
  /\ \E r \in {JSONStore_save(file, call[w].data)} :
       /\ r.err = "none"
       /\ Lands(w, "returned", r)

\* a save raises StorageError: _atomic_write met an OSError and the target
\* is as it was
SaveFails(w) ==
  /\ pc[w] \in {"loaded", "appended"}
  /\ Leave(w, "StorageError")
  /\ UNCHANGED <<file, tmp, tmpName, pre, nextId, robs>>

\* the process of w is stopped in the middle of an operation
Stop(w) ==
  /\ pc[w] \in {"looked", "listed", "loaded", "saved", "appended"}
  /\ Move(w, "stopped", [call[w] EXCEPT !.at = pc[w]])
  /\ UNCHANGED <<file, tmp, tmpName, pre, nextId, robs>>

\* the caller of w has the outcome and may call again
Resume(w) ==
  /\ pc[w] = "returned"
  /\ Move(w, "idle", [Rest EXCEPT !.n = call[w].n])
  /\ UNCHANGED <<file, tmp, tmpName, pre, nextId, robs>>

\* the store holds the first book of the catalog, q copies of it
Stocked(q) ==
  add_book(json_dump(default_data), <<"A", "b">>, <<"E", "v">>, IsbnA_raw, 25,
           USD, q, TRUE, 1, 1).file

InitWriters(ws) ==
  /\ file \in {Stocked(q) : q \in 1..MaxQty}
  /\ tmp = NoTmp
  /\ tmpName = FALSE
  /\ pc = [w \in ws |-> "idle"]
  /\ call = [w \in ws |-> Rest]
  /\ pre = [init |-> file, lost |-> FALSE]
  /\ nextId = 2
  /\ robs = Idle

NextWriters ==
  \/ \E w \in DOMAIN pc : BeginSell(w)
  \/ \E w \in DOMAIN pc : BeginIncrease(w)
  \/ \E w \in DOMAIN pc : BeginAdd(w)
  \/ \E w \in DOMAIN pc : ListBooks(w)
  \/ \E w \in DOMAIN pc : LoadDoc(w)
  \/ \E w \in DOMAIN pc : SaveDoc(w)
  \/ \E w \in DOMAIN pc : LoadLedger(w)
  \/ \E w \in DOMAIN pc : SaveLedger(w)
  \/ \E w \in DOMAIN pc : SaveFails(w)
  \/ \E w \in DOMAIN pc : Stop(w)
  \/ \E w \in DOMAIN pc : Resume(w)

\* one writer
SpecSell == InitWriters({1}) /\ [][NextWriters]_vars

\* two writers
SpecWriters == InitWriters({1, 2}) /\ [][NextWriters]_vars

\* Two writers on a store that starts empty, calling add, add_book, update
\* and sell; MaxCalls operations are begun in all.
Start(w, op, args, b, usesId) ==
  /\ pc[w] = "idle"
  /\ Begun < MaxCalls
  /\ Move(w, IF b.err = "none" THEN "looked" ELSE "returned",
          Began(op, args, b, call[w].n + 1))
  /\ nextId' = IF usesId THEN nextId + 1 ELSE nextId
  /\ UNCHANGED <<file, tmp, tmpName, pre, robs>>

\* the caller builds a Book and hands it to BookRepository.add
StartAdd(w) ==
  /\ pc[w] = "idle"
  /\ \E bk \in NewBooks(nextId, 1) :
       Start(w, "add", [book |-> bk], to_add([err |-> "none", book |-> bk]),
             TRUE)

\* the caller reads a record, sets its ISBN and hands it to
\* BookRepository.update
StartUpdate(w) ==
  /\ pc[w] = "idle"
  /\ \E bk \in HeldBooks(file, nextId, 1), isbn \in {IsbnA, IsbnB} :
       \E rec \in {[bk EXCEPT !.isbn = isbn]} :
         Start(w, "update", [book |-> rec],
               to_update([err |-> "none", book |-> rec], NoSale), FALSE)

StartAddBook(w) ==
  /\ pc[w] = "idle"
  /\ \E e \in Catalog :
      \E b \in {add_begin(file, e, 25, 1, nextId, 1)} :
        Start(w, "add_book", [isbn |-> e.isbn, quantity |-> 1], b,
              b.how = "add")

StartSell(w) ==
  /\ pc[w] = "idle"
  /\ \E isbn \in LookupIsbns :
      \E b \in {sell_begin(file, isbn, 1, nextId, 1)} :
        Start(w, "sell", [isbn |-> isbn, qty |-> 1], b, b.err = "none")

InitShared ==
  /\ file = json_dump(default_data)
  /\ tmp = NoTmp
  /\ tmpName = FALSE
  /\ pc = [w \in {1, 2} |-> "idle"]
  /\ call = [w \in {1, 2} |-> Rest]
  /\ pre = [init |-> file, lost |-> FALSE]
  /\ nextId = 1
  /\ robs = Idle

NextShared ==
  \/ \E w \in DOMAIN pc : StartAdd(w)
  \/ \E w \in DOMAIN pc : StartUpdate(w)
  \/ \E w \in DOMAIN pc : StartAddBook(w)
  \/ \E w \in DOMAIN pc : StartSell(w)
  \/ \E w \in DOMAIN pc : ListBooks(w)
  \/ \E w \in DOMAIN pc : LoadDoc(w)
  \/ \E w \in DOMAIN pc : SaveDoc(w)
  \/ \E w \in DOMAIN pc : LoadLedger(w)
  \/ \E w \in DOMAIN pc : SaveLedger(w)
  \/ \E w \in DOMAIN pc : SaveFails(w)
  \/ \E w \in DOMAIN pc : Resume(w)

SpecShared == InitShared /\ [][NextShared]_vars

\* ---------------------------------------------------------------- properties of the writers
\* where the operation of w is, or was when it ended
Where(w) == IF pc[w] \in {"returned", "stopped"} THEN call[w].at ELSE pc[w]

\* w is in a sell that has passed its checks
Selling(w) == call[w].op = "sell" /\ call[w].how = "update"

\* the persisted quantities of the book w sells
StockOf(w) ==
  {Books(file)[i].quantity :
     i \in {j \in 1..Len(Books(file)) : Books(file)[j].id = call[w].book.id}}

Decremented(w) == StockOf(w) = {call[w].book.quantity}

Undecremented(w) == StockOf(w) = {call[w].book.quantity + call[w].args.qty}

\* the sale of w is in the persisted sales
Logged(w) ==
  \E i \in 1..Len(Sales(file)) : Sales(file)[i].sale_id = call[w].sale.sale_id

\* C19: with one writer, a sell saves twice: up to the first save the file
\* holds the old quantity and not the sale; from the first save to the second
\* it holds the decremented quantity and not the sale; after the second it
\* holds both. So the sale is never persisted next to the old quantity, and a
\* sell whose second save raised, or whose process stopped between the two
\* saves, leaves the decremented quantity without the sale.
C19_TwoSavesInOrder ==
  \A w \in DOMAIN pc :
    Selling(w) =>
      /\ Where(w) \in {"looked", "listed", "loaded"}
         => (Undecremented(w) /\ ~Logged(w))
      /\ Where(w) \in {"saved", "appended"}
         => (Decremented(w) /\ ~Logged(w))
      /\ Where(w) = "done" /\ pc[w] = "returned"
         => (Decremented(w) /\ Logged(w))
      /\ Logged(w) => Decremented(w)

\* the second save of a sell raised StorageError: the quantity is decremented
\* and the sale is not in the file
C19_Witness ==
  /\ pc[1] = "returned"
  /\ Selling(1)
  /\ call[1].err = "StorageError"
  /\ call[1].at = "appended"
  /\ Decremented(1)
  /\ ~Logged(1)

\* the save of w after _save_books' load: its list of books, the sales it saw
WritesBooks(w) ==
  /\ pc[w] = "loaded"
  /\ pc'[w] \in {"saved", "returned"}
  /\ Books(file') = to_dicts(call[w].books)
  /\ Sales(file') = Sales(call[w].seen)

\* the save of w at the end of sell: the books it saw, the sales it saw and
\* its sale
WritesSale(w) ==
  /\ pc[w] = "appended"
  /\ pc'[w] = "returned"
  /\ Books(file') = Books(call[w].seen)
  /\ Sales(file') = Append(Sales(call[w].seen), Sale_to_dict(call[w].sale))

\* C20: with two writers, every save puts the whole document of the saver in
\* the place of the file: the books and sales it loaded itself, with its own
\* change, whatever the other writer has saved since that load. Operations are
\* therefore not isolated: a save of the other writer lands between the two
\* saves of a sell, and a saved change is missing after the other writer's
\* save (C20_Witness is such an interleaving).
C20_SavesOverwrite ==
  [][file' # file => \E w \in DOMAIN pc : WritesBooks(w) \/ WritesSale(w)]_vars

\* both writers sold one copy of the book of which the store had one; the
\* save of one landed between the two saves of the other, and of the two
\* sales only one is in the file
C20_Witness ==
  /\ \A w \in {1, 2} :
       /\ pc[w] = "returned"
       /\ Selling(w)
       /\ call[w].err = "none"
       /\ call[w].args.qty = 1
  /\ Books(pre.init)[1].quantity = 1
  /\ call[1].crossed \/ call[2].crossed
  /\ pre.lost
  /\ Len(Sales(file)) = 1
  /\ Books(file)[1].quantity = 0

\* ---------------------------------------------------------------- more properties of the single writer
\* C21: no persisted book ever has a negative quantity: decrease_stock by more
\* than the book holds, increase_stock and decrease_stock by zero or less, and
\* set_quantity to a negative value fail with ValidationError and leave the
\* file, and so the quantity, as it was; nothing is clamped to zero.
C21_QuantityNeverNegative ==
  /\ \A i \in 1..Len(Books(file)) : Books(file)[i].quantity >= 0
  /\ Returned("decrease_stock") =>
       \A i \in FirstAt(pre, Norm(call.args.isbn)) :
         (call.args.by > Books(pre)[i].quantity \/ call.args.by <= 0)
         => (call.res.err = "ValidationError" /\ file = pre)
  /\ Returned("increase_stock") =>
       \A i \in FirstAt(pre, Norm(call.args.isbn)) :
         call.args.by <= 0
         => (call.res.err = "ValidationError" /\ file = pre)
  /\ (Returned("set_quantity") /\ call.args.quantity < 0)
     => (call.res.err = "ValidationError" /\ file = pre)

\* two copies were to be taken from a book that holds one
C21_Witness ==
  /\ Failed("decrease_stock", "ValidationError")
  /\ call.args.by = 2
  /\ \E i \in FirstAt(pre, Norm(call.args.isbn)) :
       Books(pre)[i].quantity = 1 /\ Books(file)[i].quantity = 1

\* ---------------------------------------------------------------- more properties of the store
\* the save that has returned raised inside _atomic_write, at the step call.at
RaisedInWrite == Returned("save") /\ "at" \in DOMAIN call

\* C22: a save that fails at a step of the atomic write (the creation of the
\* temporary file, the serialization into it, the replacement of the target)
\* gives the caller StorageError, leaves the target as it was, and leaves no
\* temporary file that it created.
C22_FailedSaveCleansUp ==
  RaisedInWrite =>
    /\ call.res.err = "StorageError"
    /\ file = pre
    /\ call.at # "aw_create" => tmp = NoTmp

\* json.dump raised on an element it cannot write: the target is as before
\* and the temporary file, created and still empty, is left behind
C22_Witness ==
  /\ RaisedInWrite
  /\ call.res.err = "StorageError"
  /\ call.at = "aw_dump"
  /\ ~serializable(call.data)
  /\ file = pre
  /\ tmp = Content("empty")

\* the operations of InventoryService that change the store
InventoryOps ==
  {"add_book", "set_price", "set_quantity", "increase_stock",
   "decrease_stock", "archive_if_empty"}

\* the record b and the record get_by_isbn gives agree
Agree(b, g) ==
  /\ g.err = "none"
  /\ g.book.id = b.id
  /\ g.book.quantity = b.quantity
  /\ g.book.price_cents = b.price_cents
  /\ g.book.archived = b.archived

\* C23: the record a successful add_book, set_price, set_quantity,
\* increase_stock, decrease_stock or archive_if_empty returns agrees with the
\* store: get_by_isbn right after the call gives a record of the same id,
\* quantity, price_cents and archived flag; so the record archive_if_empty
\* returns is archived.
C23_ReturnedAgreesWithStore ==
  (pc = "returned" /\ call.op \in InventoryOps /\ call.res.err = "none") =>
    /\ Agree(call.res.ret, get_by_isbn(file, call.args.isbn, nextId, 1))
    /\ call.op = "archive_if_empty" => call.res.ret.archived

\* archive_if_empty archived the persisted book and returned a record that
\* is not archived
C23_Witness ==
  /\ Succeeded("archive_if_empty")
  /\ ~call.res.ret.archived
  /\ \E i \in FirstAt(file, Norm(call.args.isbn)) :
       /\ Books(file)[i].archived
       /\ ~Books(pre)[i].archived
       /\ Books(file)[i].id = call.res.ret.id

\* C24: under the facade operations of a single writer every persisted book
\* that is archived has quantity 0.
C24_ArchivedIsEmpty ==
  \A i \in 1..Len(Books(file)) :
    Books(file)[i].archived => Books(file)[i].quantity = 0

\* add_book on the ISBN of an archived book restocked it: the book is archived
\* and holds a copy
C24_Witness ==
  /\ Succeeded("add_book")
  /\ \E i \in FirstAt(pre, Norm(call.args.isbn)) :
       /\ Books(pre)[i].archived
       /\ Books(pre)[i].quantity = 0
       /\ Books(file)[i].archived
       /\ Books(file)[i].quantity = 1

RECURSIVE Shelved(_, _)
\* the copies the book records of ISBN n hold
Shelved(books, n) ==
  IF books = <<>> THEN 0
  ELSE (IF Head(books).isbn = n THEN Head(books).quantity ELSE 0)
       + Shelved(Tail(books), n)

RECURSIVE Sold(_, _)
\* the copies the sale records of ISBN n count
Sold(sales, n) ==
  IF sales = <<>> THEN 0
  ELSE (IF Head(sales).isbn = n THEN Head(sales).qty ELSE 0)
       + Sold(Tail(sales), n)

\* the copies of ISBN n a document accounts for, on the shelf or sold
Accounted(f, n) == Shelved(Books(f), n) + Sold(Sales(f), n)

\* the copies the call just returned has stocked of ISBN n
StockedNow(n) ==
  IF Succeeded("add_book") /\ Norm(call.args.isbn) = n
  THEN call.args.quantity
  ELSE 0

\* C25: from the empty store, with add_book and sell alone, the quantity of a
\* book plus the copies its sales count equals the copies the successful
\* add_book calls stocked: nothing is accounted for before the first record
\* is created, every call adds to the account of an ISBN exactly what it
\* stocked of it, and no quantity is negative, so no more is sold than was
\* stocked.
C25_StockConserved ==
  \A n \in {IsbnA, IsbnB} :
    /\ nextId = 1 => Accounted(file, n) = 0
    /\ Accounted(file, n) = Accounted(pre, n) + (IF pc = "returned" THEN StockedNow(n) ELSE 0)
    /\ Shelved(Books(file), n) >= 0
    /\ Sold(Sales(file), n) <= Accounted(file, n)

\* a restock of two copies after a sale of one: one copy sold, two on the
\* shelf, three stocked in all
C25_Witness ==
  /\ Succeeded("add_book")
  /\ call.args.quantity = 2
  /\ Sold(Sales(file), Norm(call.args.isbn)) = 1
  /\ Shelved(Books(pre), Norm(call.args.isbn)) = 0
  /\ Accounted(file, Norm(call.args.isbn)) = 3

\* the errors of the package a ledger or service operation may end in
DomainErrors ==
  {"ValidationError", "BookNotFoundError", "DuplicateISBNError",
   "OutOfStockError"}

\* C26: an operation of the ledger or of a service that ends in
\* ValidationError, BookNotFoundError, DuplicateISBNError or OutOfStockError
\* has saved nothing: the document, books and sales, is the one before the
\* call, also when a record was changed in memory before the error.
C26_FailureSavesNothing ==
  (pc = "returned" /\ call.res.err \in DomainErrors) => file = pre

\* add_book on the ISBN of a persisted book, the price to be updated and the
\* price negative: the stock was increased in memory before the price was
\* rejected
C26_Witness ==
  /\ Failed("add_book", "ValidationError")
  /\ call.args.quantity > 0
  /\ call.args.update_price_if_changed
  /\ call.args.price < 0
  /\ FirstAt(pre, Norm(call.args.isbn)) # {}
  /\ file = pre

\* the operations that change the book they find under an ISBN
ByIsbnOps ==
  {"archive_by_isbn", "set_price", "set_quantity", "increase_stock",
   "decrease_stock", "archive_if_empty"}

\* the book records of before are all there, in their order, and one record
\* follows them
OneBookAppended ==
  /\ Len(Books(file)) = Len(Books(pre)) + 1
  /\ SubSeq(Books(file), 1, Len(Books(pre))) = Books(pre)

\* the record at i differs from the one before the call in its quantity at most
OnlyQuantity(i) ==
  Books(file)[i] = [Books(pre)[i] EXCEPT !.quantity = Books(file)[i].quantity]

\* C27: a successful add, update, archive_by_isbn or inventory operation
\* changes the one book it is aimed at and leaves every other book record,
\* their order and the sales as they were; a successful sell changes the
\* quantity of the book sold and no other field of it, leaves the other books
\* as they were and appends one sale to the sales of before.
C27_FrameOfMutation ==
  (pc = "returned" /\ call.res.err = "none") =>
    /\ call.op = "add" => (OneBookAppended /\ Sales(file) = Sales(pre))
    /\ call.op = "add_book" =>
         /\ Sales(file) = Sales(pre)
         /\ FirstAt(pre, Norm(call.args.isbn)) = {} => OneBookAppended
         /\ \A i \in FirstAt(pre, Norm(call.args.isbn)) : OthersKept(i)
    /\ call.op = "update" =>
         /\ Sales(file) = Sales(pre)
         /\ WithId(pre, call.args.book.id) # {}
         /\ \A i \in WithId(pre, call.args.book.id) : OthersKept(i)
    /\ call.op \in ByIsbnOps =>
         /\ Sales(file) = Sales(pre)
         /\ FirstAt(pre, Norm(call.args.isbn)) # {}
         /\ \A i \in FirstAt(pre, Norm(call.args.isbn)) : OthersKept(i)
    /\ call.op = "sell" =>
         /\ FirstAt(pre, Norm(call.args.isbn)) # {}
         /\ \A i \in FirstAt(pre, Norm(call.args.isbn)) :
              /\ OthersKept(i)
              /\ OnlyQuantity(i)
              /\ Books(file)[i].quantity = Books(pre)[i].quantity - call.args.qty
         /\ Len(Sales(file)) = Len(Sales(pre)) + 1
         /\ SubSeq(Sales(file), 1, Len(Sales(pre))) = Sales(pre)

\* a copy of the first of two books was sold: the second book is as it was
C27_Witness ==
  /\ Succeeded("sell")
  /\ Len(Books(pre)) = 2
  /\ FirstAt(pre, Norm(call.args.isbn)) = {1}
  /\ Books(file)[2] = Books(pre)[2]
  /\ Books(file)[1].quantity = Books(pre)[1].quantity - 1
  /\ Len(Sales(file)) = 1

\* ---------------------------------------------------------------- properties of the shelves
\* the records of the books collection that _load_books skips
Skipped(f) ==
  {i \in 1..Len(Books(f)) :
     Book_from_dict(Books(f)[i], nextId, 1).err = "ValidationError"}

LedgerOps == {"add", "update", "remove", "archive_by_isbn"}

\* C28: a record of the books collection that the decoding skips is still in
\* the collection, as it was, after a successful add, update, remove or
\* archive_by_isbn of another book.
C28_SkippedRecordsKept ==
  (pc = "returned" /\ call.op \in LedgerOps /\ call.res.err = "none") =>
    \A i \in Skipped(pre) :
      \E j \in 1..Len(Books(file)) : Books(file)[j] = Books(pre)[i]

\* add succeeded on a collection that held a record with a negative quantity
\* behind a well-formed one, and the record is gone
C28_Witness ==
  /\ Succeeded("add")
  /\ Len(Books(pre)) = 2
  /\ Books(pre)[1] \in WellFormed
  /\ Books(pre)[2].quantity = -1
  /\ Skipped(pre) = {2}
  /\ Len(Books(file)) = 2
  /\ \A j \in 1..Len(Books(file)) : Books(file)[j] # Books(pre)[2]

\* ---------------------------------------------------------------- properties of the shared store
\* the book records of f whose ISBN, normalized, is that of isbn
Under(f, isbn) ==
  {i \in 1..Len(Books(f)) :
     normalize_isbn(Books(f)[i].isbn) = normalize_isbn(isbn)}

\* C29: two writers interleaved load by load and save by save, calling add,
\* add_book, update and sell on a store that starts empty, never persist a
\* document with two book records of the same normalized ISBN.
C29_OneRecordPerIsbn ==
  \A isbn \in {IsbnA, IsbnB} : Cardinality(Under(file, isbn)) <= 1

\* both writers added a book of the same ISBN, each having listed the books
\* before the other saved: the save of the second removed the record of the
\* first, and one record is there
C29_Witness ==
  /\ \A w \in {1, 2} : /\ pc[w] = "returned"
                       /\ call[w].err = "none"
                       /\ call[w].how = "add"
                       /\ call[w].at = "done"
                       /\ call[w].book.isbn = IsbnA
  /\ call[1].book.id # call[2].book.id
  /\ pre.lost
  /\ Cardinality(Under(file, IsbnA)) = 1

====
